---- MODULE Spec2Model ----
(***************************************************************************)
(* The binary trace decoder of src/src/utils/binaryParser.ts              *)
(* (parseBinaryLogFile and calculateTaskStats).  One step of the model is *)
(* one iteration of the decode loop, i.e. one whole record of the byte    *)
(* stream; Finish is the code after the loop: the empty guard, the stable *)
(* sort by startTime and the statistics pass.                             *)
(*                                                                         *)
(* JavaScript arrays and objects are references: the preemption array of  *)
(* an open task is the very array the emitted instance carries, and the   *)
(* instances of a group share one stats object.  The model keeps both in  *)
(* heaps (sequences, in allocation order) and stores indices, so that     *)
(* sharing is visible.                                                     *)
(*                                                                         *)
(* Spec, SpecPairing, SpecStats and SpecTrace draw the stream one whole   *)
(* record at a time and keep no buffer; SpecSetup does the same with the  *)
(* four kinds of setup record; SpecBytes draws the byte buffer in Init    *)
(* and decodes it as the loop does, truncation checks included.  The      *)
(* catch of lines 207-210 is not modelled: every read of the loop is      *)
(* behind a length test, so nothing in it throws.  SpecCalls runs several *)
(* calls one after the other.                                              *)
(*                                                                         *)
(* SpecPreprocess adds preprocessLogBinary of src/electron/main.js, which *)
(* removes delimiter bytes before the buffer is decoded.  SpecLegacy is   *)
(* the timestamp extension of the text decoder, src/src/utils/parser.ts   *)
(* (parseTimestamp and the lastTimestamp update of the loop); the rest of *)
(* that loop reads the extended timestamp and writes neither              *)
(* lastTimestamp nor currentOverflowCount.                                 *)
(***************************************************************************)
EXTENDS Integers, Sequences, FiniteSets, TLC

\* ---- bounds of the model ------------------------------------------------
\* ids 0..MaxId and timestamps 0..MaxTime in every specification
MaxId == 1
MaxTime == 1
\* records per stream: Spec (every record kind but INFO), SpecPairing (task
\* switch and interrupt events), SpecSetup (setup records and those events),
\* SpecTrace (events, with the stream kept as history)
MaxRecords == 3
MaxEvents == 4
MaxSetup == 3
\* SpecStats: events per stream and timestamps 0..MaxStatTime
MaxStatEvents == 4
MaxStatTime == 3
MaxTrace == 4
\* whole records in the stream a buffer is cut from: SpecBytes, SpecBytesFair
MaxWritten == 3
MaxWrittenFair == 2
\* calls of parseBinaryLogFile in one behaviour of SpecCalls
MaxCalls == 3
\* matches of the regular expression in one text of SpecLegacy
MaxMatches == 4
\* whole records in one file of SpecPreprocess
MaxRaw == 2
\* timestamps 0..MaxStamp of SpecTrace, which draws them strictly increasing
MaxStamp == 3

\* ---- constants of binaryParser.ts ---------------------------------------
PROF_EVENT_TYPE_MASK == 127
PROF_EVENT_FLAG_START_END == 128
PROF_EVENT_TASK_SWITCH == 1
PROF_EVENT_ISR == 2
PROF_EVENT_TASK_CREATE == 3
PROF_SETUP_TASK_MAP == 112
PROF_SETUP_ISR_MAP == 113
PROF_SETUP_INFO == 127
packetSize == 10
\* null of `lastEndTime: bigint | null' and `activeTaskId: number | null';
\* ids and timestamps are read unsigned, so no read value equals it
Null == -1

Ids == 0..MaxId
Times == 0..MaxTime
\* names a setup record can carry (the empty name has nameLen 0)
Names == {"", "U"}
\* an event kind the switch does not know
UnknownKind == 4
\* a setup opcode in 0x70..0x7F that is none of TASK_MAP, ISR_MAP, INFO
UnknownSetup == 114
\* names an INFO record can carry: a clock line, a clock line without a
\* number, and a line that is no clock line
InfoNames == {"CLK:8", "CLK:", "U"}

\* ---- `number | null' of cpuFrequency ------------------------------------
NoNumber == [kind |-> "null", value |-> 0]
NaN == [kind |-> "NaN", value |-> 0]
Number(n) == [kind |-> "number", value |-> n]

VARIABLES
    tasks,          \* const tasks: TaskData[]            (emitted instances)
    heap,           \* the preemption arrays, by allocation order
    taskNameMap,    \* Map<number, string>
    isrNameMap,     \* Map<number, string>
    offset,         \* the cursor
    lastEndTime,    \* bigint | null
    taskStartMap,   \* Map<number, {startTime, preemptions}>
    isrStartMap,    \* Map<number, bigint>
    activeTaskId,   \* number | null
    pc,             \* "decode" while in the loop, "done" after return
    result,         \* the returned array
    statsHeap,      \* the TaskStats objects, by allocation order
    count,          \* number of records consumed (iterations of the loop)
    stream,         \* history variable: the records consumed so far
    cpuFrequency,   \* number | null
    content,        \* the byte buffer, in the specification that draws it
    written,        \* the whole records `content' was cut from
    calls,          \* history variable: the earlier calls, buffer and output
    currentOverflowCount,   \* parser.ts: wrap-arounds counted so far
    lastTimestamp,  \* parser.ts: the extended timestamp of the last match
    times,          \* history variable: raw and extended timestamp per match
    buffer          \* main.js: the bytes of the file before preprocessing

vars == <<tasks, heap, taskNameMap, isrNameMap, offset, lastEndTime,
          taskStartMap, isrStartMap, activeTaskId, pc, result, statsHeap,
          count, stream, cpuFrequency, content, written, calls,
          currentOverflowCount, lastTimestamp, times, buffer>>

\* ---- Map<K, V> as a function on the keys present ------------------------
MapSet(m, k, v) == [x \in (DOMAIN m) \cup {k} |-> IF x = k THEN v ELSE m[x]]
MapDelete(m, k) == [x \in (DOMAIN m) \ {k} |-> m[x]]
EmptyMap == [x \in {} |-> 0]

\* ---- decoding of the type byte ------------------------------------------
EventTypeOf(typeByte) == typeByte % (PROF_EVENT_TYPE_MASK + 1)
IsStartEvent(typeByte) == (typeByte \div PROF_EVENT_FLAG_START_END) % 2 # 0
TypeByte(kind, start) == kind + (IF start THEN PROF_EVENT_FLAG_START_END ELSE 0)

\* ---- name resolution: map.get(id) || fallback ---------------------------
\* `||' takes the fallback for undefined and for the empty string
TaskNameOf(id) ==
    IF id \in DOMAIN taskNameMap /\ taskNameMap[id] # ""
    THEN taskNameMap[id] ELSE "TaskID_" \o ToString(id)
IsrNameOf(id) ==
    IF id \in DOMAIN isrNameMap /\ isrNameMap[id] # ""
    THEN isrNameMap[id] ELSE "ISRID_" \o ToString(id)

\* ---- the gap rule, run before the switch on every event record ----------
\* GapNeeded with `>=' for the `>' of line 90 and without the test of line 92
GapNeededAtEqual(typeByte, timestamp) ==
    /\ IsStartEvent(typeByte) \/ EventTypeOf(typeByte) = PROF_EVENT_TASK_CREATE
    /\ lastEndTime # Null
    /\ timestamp >= lastEndTime

\* GapNeeded without the tests on the timestamp
GapNeededAnyTime(typeByte, timestamp) ==
    /\ IsStartEvent(typeByte) \/ EventTypeOf(typeByte) = PROF_EVENT_TASK_CREATE
    /\ lastEndTime # Null

GapNeeded(typeByte, timestamp) ==
    /\ IsStartEvent(typeByte) \/ EventTypeOf(typeByte) = PROF_EVENT_TASK_CREATE
    /\ lastEndTime # Null
    /\ timestamp > lastEndTime
    /\ timestamp - lastEndTime > 0

\* an instance with a freshly allocated empty preemption array
NewInstance(h, name, startTime, endTime) ==
    [name |-> name, startTime |-> startTime, endTime |-> endTime,
     preemptions |-> Len(h) + 1]

\* tasks and heap after the gap rule
GapTasks(typeByte, timestamp) ==
    IF GapNeeded(typeByte, timestamp)
    THEN Append(tasks, NewInstance(heap, "_RTOS_", lastEndTime, timestamp))
    ELSE tasks
GapHeap(typeByte, timestamp) ==
    IF GapNeeded(typeByte, timestamp) THEN Append(heap, <<>>) ELSE heap

EventRecord(typeByte, id, timestamp) ==
    [rec |-> "event", typeByte |-> typeByte, id |-> id, timestamp |-> timestamp]
SetupRecord(setupCode, id, name) ==
    [rec |-> "setup", setupCode |-> setupCode, id |-> id, name |-> name]

\* Consume that leaves the cursor where it is
ConsumeInPlace(size) ==
    /\ pc = "decode"
    /\ offset' = offset
    /\ count' = count + 1
    /\ UNCHANGED <<pc, result, statsHeap, content, written, calls,
                   currentOverflowCount, lastTimestamp, times, buffer>>

\* the loop runs while records remain; every record moves the cursor
Consume(size) ==
    /\ pc = "decode"
    /\ offset' = offset + size
    /\ count' = count + 1
    /\ UNCHANGED <<pc, result, statsHeap, content, written, calls,
                   currentOverflowCount, lastTimestamp, times, buffer>>

\* ---- setup records ------------------------------------------------------
\* SetupTaskMap that enters the name in both tables
SetupTaskMapBothTables(id, name) ==
    /\ Consume(3 + Len(name))
    /\ taskNameMap' = MapSet(taskNameMap, id, name)
    /\ isrNameMap' = MapSet(isrNameMap, id, name)
    /\ UNCHANGED <<cpuFrequency, tasks, heap, lastEndTime, taskStartMap,
                   isrStartMap, activeTaskId>>

SetupTaskMap(id, name) ==
    /\ Consume(3 + Len(name))
    /\ taskNameMap' = MapSet(taskNameMap, id, name)
    /\ UNCHANGED <<cpuFrequency, tasks, heap, isrNameMap, lastEndTime, taskStartMap,
                   isrStartMap, activeTaskId>>

SetupIsrMap(id, name) ==
    /\ Consume(3 + Len(name))
    /\ isrNameMap' = MapSet(isrNameMap, id, name)
    /\ UNCHANGED <<cpuFrequency, tasks, heap, taskNameMap, lastEndTime, taskStartMap,
                   isrStartMap, activeTaskId>>

SetupOther(id, name) ==
    /\ Consume(3 + Len(name))
    /\ UNCHANGED <<cpuFrequency, tasks, heap, taskNameMap, isrNameMap, lastEndTime,
                   taskStartMap, isrStartMap, activeTaskId>>

\* String.prototype.startsWith
StartsWith(str, prefix) ==
    Len(str) >= Len(prefix) /\ SubSeq(str, 1, Len(prefix)) = prefix

\* parseInt(str, 10) on a string without leading white space: an optional
\* sign and the longest run of decimal digits; NaN when there is no digit.
\* It does not throw.
DecimalDigits == <<"0", "1", "2", "3", "4", "5", "6", "7", "8", "9">>
IsDigit(c) == \E d \in 1..10 : DecimalDigits[d] = c
DigitValue(c) == (CHOOSE d \in 1..10 : DecimalDigits[d] = c) - 1
RECURSIVE LeadingDigits(_, _)
LeadingDigits(str, acc) ==
    IF str = "" \/ ~IsDigit(Head(str)) THEN acc
    ELSE LeadingDigits(Tail(str), acc * 10 + DigitValue(Head(str)))
ParseInt(str) ==
    LET signed == str # "" /\ Head(str) \in {"-", "+"}
        digits == IF signed THEN Tail(str) ELSE str
    IN  IF digits = "" \/ ~IsDigit(Head(digits)) THEN NaN
        ELSE Number((IF str # "" /\ Head(str) = "-" THEN -1 ELSE 1)
                    * LeadingDigits(digits, 0))

\* an INFO record: a name that starts with "CLK:" sets cpuFrequency
SetupInfo(id, name) ==
    /\ Consume(3 + Len(name))
    /\ cpuFrequency' = IF StartsWith(name, "CLK:")
                       THEN ParseInt(SubSeq(name, 5, Len(name)))
                       ELSE cpuFrequency
    /\ UNCHANGED <<tasks, heap, taskNameMap, isrNameMap, lastEndTime,
                   taskStartMap, isrStartMap, activeTaskId>>

\* ---- event records ------------------------------------------------------
\* TaskStart that keeps the preemption array of an interval already open
\* (line 108 reusing startInfo.preemptions)
TaskStartKeepsPreemptions(id, timestamp) ==
    LET typeByte == TypeByte(PROF_EVENT_TASK_SWITCH, TRUE)
        t1 == GapTasks(typeByte, timestamp)
        h1 == GapHeap(typeByte, timestamp)
    IN  /\ Consume(packetSize)
        /\ tasks' = t1
        /\ heap' = Append(h1, <<>>)
        /\ taskStartMap' = MapSet(taskStartMap, id,
                [startTime |-> timestamp,
                 preemptions |-> IF id \in DOMAIN taskStartMap
                                 THEN taskStartMap[id].preemptions
                                 ELSE Len(h1) + 1])
        /\ activeTaskId' = id
        /\ lastEndTime' = Null
        /\ UNCHANGED <<cpuFrequency, taskNameMap, isrNameMap, isrStartMap>>

TaskStart(id, timestamp) ==
    LET typeByte == TypeByte(PROF_EVENT_TASK_SWITCH, TRUE)
        t1 == GapTasks(typeByte, timestamp)
        h1 == GapHeap(typeByte, timestamp)
    IN  /\ Consume(packetSize)
        /\ tasks' = t1
        /\ heap' = Append(h1, <<>>)
        /\ taskStartMap' = MapSet(taskStartMap, id,
                [startTime |-> timestamp, preemptions |-> Len(h1) + 1])
        /\ activeTaskId' = id
        /\ lastEndTime' = Null
        /\ UNCHANGED <<cpuFrequency, taskNameMap, isrNameMap, isrStartMap>>

\* TaskEnd with `activeTaskId = null' done for every end (the test of line 127
\* dropped)
TaskEndClearsActive(id, timestamp) ==
    LET typeByte == TypeByte(PROF_EVENT_TASK_SWITCH, FALSE)
        t1 == GapTasks(typeByte, timestamp)
        h1 == GapHeap(typeByte, timestamp)
    IN  /\ Consume(packetSize)
        /\ heap' = h1
        /\ IF id \in DOMAIN taskStartMap
           THEN /\ tasks' = Append(t1,
                        [name |-> TaskNameOf(id),
                         startTime |-> taskStartMap[id].startTime,
                         endTime |-> timestamp,
                         preemptions |-> taskStartMap[id].preemptions])
                /\ taskStartMap' = MapDelete(taskStartMap, id)
                /\ lastEndTime' = timestamp
           ELSE /\ tasks' = t1
                /\ UNCHANGED <<taskStartMap, lastEndTime>>
        /\ activeTaskId' = Null
        /\ UNCHANGED <<cpuFrequency, taskNameMap, isrNameMap, isrStartMap>>

\* TaskEnd without lines 127-129: activeTaskId is left as it is
TaskEndKeepsActive(id, timestamp) ==
    LET typeByte == TypeByte(PROF_EVENT_TASK_SWITCH, FALSE)
        t1 == GapTasks(typeByte, timestamp)
        h1 == GapHeap(typeByte, timestamp)
    IN  /\ Consume(packetSize)
        /\ heap' = h1
        /\ IF id \in DOMAIN taskStartMap
           THEN /\ tasks' = Append(t1,
                        [name |-> TaskNameOf(id),
                         startTime |-> taskStartMap[id].startTime,
                         endTime |-> timestamp,
                         preemptions |-> taskStartMap[id].preemptions])
                /\ taskStartMap' = MapDelete(taskStartMap, id)
                /\ lastEndTime' = timestamp
           ELSE /\ tasks' = t1
                /\ UNCHANGED <<taskStartMap, lastEndTime>>
        /\ UNCHANGED <<activeTaskId, cpuFrequency, taskNameMap, isrNameMap,
                       isrStartMap>>

\* TaskEnd that emits the instance and leaves the interval open and active
\* (lines 121 and 127-129 left out)
TaskEndLeavesOpen(id, timestamp) ==
    LET typeByte == TypeByte(PROF_EVENT_TASK_SWITCH, FALSE)
        t1 == GapTasks(typeByte, timestamp)
        h1 == GapHeap(typeByte, timestamp)
    IN  /\ Consume(packetSize)
        /\ heap' = h1
        /\ IF id \in DOMAIN taskStartMap
           THEN /\ tasks' = Append(t1,
                        [name |-> TaskNameOf(id),
                         startTime |-> taskStartMap[id].startTime,
                         endTime |-> timestamp,
                         preemptions |-> taskStartMap[id].preemptions])
                /\ lastEndTime' = timestamp
           ELSE /\ tasks' = t1
                /\ UNCHANGED lastEndTime
        /\ UNCHANGED <<taskStartMap, activeTaskId, cpuFrequency, taskNameMap,
                       isrNameMap, isrStartMap>>

\* TaskEnd with `lastEndTime = timestamp' moved out of `if (startInfo)'
TaskEndAlwaysStamps(id, timestamp) ==
    LET typeByte == TypeByte(PROF_EVENT_TASK_SWITCH, FALSE)
        t1 == GapTasks(typeByte, timestamp)
        h1 == GapHeap(typeByte, timestamp)
    IN  /\ Consume(packetSize)
        /\ heap' = h1
        /\ IF id \in DOMAIN taskStartMap
           THEN /\ tasks' = Append(t1,
                        [name |-> TaskNameOf(id),
                         startTime |-> taskStartMap[id].startTime,
                         endTime |-> timestamp,
                         preemptions |-> taskStartMap[id].preemptions])
                /\ taskStartMap' = MapDelete(taskStartMap, id)
           ELSE /\ tasks' = t1
                /\ UNCHANGED taskStartMap
        /\ lastEndTime' = timestamp
        /\ activeTaskId' = IF activeTaskId = id THEN Null ELSE activeTaskId
        /\ UNCHANGED <<cpuFrequency, taskNameMap, isrNameMap, isrStartMap>>

TaskEnd(id, timestamp) ==
    LET typeByte == TypeByte(PROF_EVENT_TASK_SWITCH, FALSE)
        t1 == GapTasks(typeByte, timestamp)
        h1 == GapHeap(typeByte, timestamp)
    IN  /\ Consume(packetSize)
        /\ heap' = h1
        /\ IF id \in DOMAIN taskStartMap
           THEN /\ tasks' = Append(t1,
                        [name |-> TaskNameOf(id),
                         startTime |-> taskStartMap[id].startTime,
                         endTime |-> timestamp,
                         preemptions |-> taskStartMap[id].preemptions])
                /\ taskStartMap' = MapDelete(taskStartMap, id)
                /\ lastEndTime' = timestamp
           ELSE /\ tasks' = t1
                /\ UNCHANGED <<taskStartMap, lastEndTime>>
        /\ activeTaskId' = IF activeTaskId = id THEN Null ELSE activeTaskId
        /\ UNCHANGED <<cpuFrequency, taskNameMap, isrNameMap, isrStartMap>>

\* TaskCreate that also makes the created task the active one
TaskCreateActivates(start, id, timestamp) ==
    LET typeByte == TypeByte(PROF_EVENT_TASK_CREATE, start)
        t1 == GapTasks(typeByte, timestamp)
        h1 == GapHeap(typeByte, timestamp)
    IN  /\ Consume(packetSize)
        /\ tasks' = Append(t1, NewInstance(h1, "RTOS:Create", timestamp, timestamp))
        /\ heap' = Append(h1, <<>>)
        /\ lastEndTime' = timestamp
        /\ activeTaskId' = id
        /\ UNCHANGED <<cpuFrequency, taskNameMap, isrNameMap, taskStartMap, isrStartMap>>

TaskCreate(start, id, timestamp) ==
    LET typeByte == TypeByte(PROF_EVENT_TASK_CREATE, start)
        t1 == GapTasks(typeByte, timestamp)
        h1 == GapHeap(typeByte, timestamp)
    IN  /\ Consume(packetSize)
        /\ tasks' = Append(t1, NewInstance(h1, "RTOS:Create", timestamp, timestamp))
        /\ heap' = Append(h1, <<>>)
        /\ lastEndTime' = timestamp
        /\ UNCHANGED <<cpuFrequency, taskNameMap, isrNameMap, taskStartMap, isrStartMap,
                       activeTaskId>>

\* activeTaskInfo of the ISR branches: the open interval of the active task
ActiveTaskOpen == activeTaskId # Null /\ activeTaskId \in DOMAIN taskStartMap

\* IsrEnter pushing the preemption already ended at its start (endTime:
\* timestamp for the 0n of line 158)
IsrEnterEndsAtStart(id, timestamp) ==
    LET typeByte == TypeByte(PROF_EVENT_ISR, TRUE)
        t1 == GapTasks(typeByte, timestamp)
        h1 == GapHeap(typeByte, timestamp)
    IN  /\ Consume(packetSize)
        /\ tasks' = t1
        /\ isrStartMap' = MapSet(isrStartMap, id, timestamp)
        /\ heap' = IF ActiveTaskOpen
                   THEN LET r == taskStartMap[activeTaskId].preemptions
                        IN  [h1 EXCEPT ![r] = Append(@,
                                [startTime |-> timestamp, endTime |-> timestamp,
                                 isrName |-> IsrNameOf(id)])]
                   ELSE h1
        /\ UNCHANGED <<cpuFrequency, taskNameMap, isrNameMap, lastEndTime, taskStartMap,
                       activeTaskId>>

IsrEnter(id, timestamp) ==
    LET typeByte == TypeByte(PROF_EVENT_ISR, TRUE)
        t1 == GapTasks(typeByte, timestamp)
        h1 == GapHeap(typeByte, timestamp)
    IN  /\ Consume(packetSize)
        /\ tasks' = t1
        /\ isrStartMap' = MapSet(isrStartMap, id, timestamp)
        /\ heap' = IF ActiveTaskOpen
                   THEN LET r == taskStartMap[activeTaskId].preemptions
                        IN  [h1 EXCEPT ![r] = Append(@,
                                [startTime |-> timestamp, endTime |-> 0,
                                 isrName |-> IsrNameOf(id)])]
                   ELSE h1
        /\ UNCHANGED <<cpuFrequency, taskNameMap, isrNameMap, lastEndTime, taskStartMap,
                       activeTaskId>>

\* Array.prototype.findLast: index of the last element satisfying the
\* predicate of line 182, 0 when there is none
FindLastOpen(list, isrName) ==
    LET hits == {i \in 1..Len(list) :
                    list[i].isrName = isrName /\ list[i].endTime = 0}
    IN  IF hits = {} THEN 0 ELSE CHOOSE i \in hits : \A j \in hits : j <= i

\* `if (startTime)': undefined and 0n are both falsy
IsrStartTruthy(id) == id \in DOMAIN isrStartMap /\ isrStartMap[id] # 0

\* IsrExit without the closing of the preemption (lines 178-190 left out)
IsrExitLeavesPreemption(id, timestamp) ==
    LET typeByte == TypeByte(PROF_EVENT_ISR, FALSE)
        t1 == GapTasks(typeByte, timestamp)
        h1 == GapHeap(typeByte, timestamp)
    IN  /\ Consume(packetSize)
        /\ IF IsrStartTruthy(id)
           THEN /\ tasks' = Append(t1, NewInstance(h1,
                        "ISR:" \o IsrNameOf(id), isrStartMap[id], timestamp))
                /\ isrStartMap' = MapDelete(isrStartMap, id)
                /\ heap' = Append(h1, <<>>)
           ELSE /\ tasks' = t1
                /\ heap' = h1
                /\ UNCHANGED isrStartMap
        /\ UNCHANGED <<cpuFrequency, taskNameMap, isrNameMap, lastEndTime, taskStartMap,
                       activeTaskId>>

IsrExit(id, timestamp) ==
    LET typeByte == TypeByte(PROF_EVENT_ISR, FALSE)
        t1 == GapTasks(typeByte, timestamp)
        h1 == GapHeap(typeByte, timestamp)
    IN  /\ Consume(packetSize)
        /\ IF IsrStartTruthy(id)
           THEN /\ tasks' = Append(t1, NewInstance(h1,
                        "ISR:" \o IsrNameOf(id), isrStartMap[id], timestamp))
                /\ isrStartMap' = MapDelete(isrStartMap, id)
                /\ LET h2 == Append(h1, <<>>)
                   IN  heap' =
                        IF ActiveTaskOpen
                        THEN LET r == taskStartMap[activeTaskId].preemptions
                                 k == FindLastOpen(h2[r], IsrNameOf(id))
                             IN  IF k # 0
                                 THEN [h2 EXCEPT ![r][k].endTime = timestamp]
                                 ELSE h2
                        ELSE h2
           ELSE /\ tasks' = t1
                /\ heap' = h1
                /\ UNCHANGED isrStartMap
        /\ UNCHANGED <<cpuFrequency, taskNameMap, isrNameMap, lastEndTime, taskStartMap,
                       activeTaskId>>

UnknownEvent(start, id, timestamp) ==
    LET typeByte == TypeByte(UnknownKind, start)
    IN  /\ Consume(packetSize)
        /\ tasks' = GapTasks(typeByte, timestamp)
        /\ heap' = GapHeap(typeByte, timestamp)
        /\ UNCHANGED <<cpuFrequency, taskNameMap, isrNameMap, lastEndTime, taskStartMap,
                       isrStartMap, activeTaskId>>

\* ---- after the loop -----------------------------------------------------
\* InsertByStart that keeps the order of emission
InsertAtEnd(sorted, x) == Append(sorted, x)

\* Array.prototype.sort with the comparator of line 228 (stable)
RECURSIVE InsertByStart(_, _)
InsertByStart(sorted, x) ==
    IF sorted = <<>> THEN <<x>>
    ELSE IF sorted[Len(sorted)].startTime <= x.startTime
         THEN Append(sorted, x)
         ELSE Append(InsertByStart(SubSeq(sorted, 1, Len(sorted) - 1), x),
                     sorted[Len(sorted)])

RECURSIVE SortByStart(_)
SortByStart(list) ==
    IF list = <<>> THEN <<>>
    ELSE InsertByStart(SortByStart(SubSeq(list, 1, Len(list) - 1)),
                       list[Len(list)])

\* ---- calculateTaskStats -------------------------------------------------
\* reduce() of lines 244 and 245
RECURSIVE MinStart(_, _)
MinStart(list, min) ==
    IF list = <<>> THEN min
    ELSE MinStart(Tail(list), IF Head(list).startTime < min
                              THEN Head(list).startTime ELSE min)
RECURSIVE MaxEnd(_, _)
MaxEnd(list, max) ==
    IF list = <<>> THEN max
    ELSE MaxEnd(Tail(list), IF Head(list).endTime > max
                            THEN Head(list).endTime ELSE max)
\* TotalTimelineDuration taken from the first instance alone
FirstInstanceDuration(list) == list[1].endTime - list[1].startTime

TotalTimelineDuration(list) ==
    MaxEnd(list, list[1].endTime) - MinStart(list, list[1].startTime)

\* createDefaultStats that counts the instance it is made for
createCountedStats ==
    [totalRunTime |-> 0, actualRunTime |-> 0, runCount |-> 1, cpuLoad |-> 0,
     averageRunTime |-> 0, preemptionCount |-> 0, totalPreemptionTime |-> 0]

createDefaultStats ==
    [totalRunTime |-> 0, actualRunTime |-> 0, runCount |-> 0, cpuLoad |-> 0,
     averageRunTime |-> 0, preemptionCount |-> 0, totalPreemptionTime |-> 0]

\* the keys of taskGroups in insertion order: names by first occurrence
RECURSIVE GroupNames(_, _)
GroupNames(list, seen) ==
    IF list = <<>> THEN seen
    ELSE GroupNames(Tail(list),
            IF \E i \in 1..Len(seen) : seen[i] = Head(list).name
            THEN seen ELSE Append(seen, Head(list).name))
\* the instances of one group, in list order
GroupOf(list, name) == SelectSeq(list, LAMBDA t : t.name = name)

Duration(task) ==
    IF task.endTime >= task.startTime THEN task.endTime - task.startTime ELSE 0
\* PreemptionSum that takes the distance between the two ends of a preemption
\* (an unset end then counts the start timestamp)
RECURSIVE PreemptionSumDistance(_)
PreemptionSumDistance(list) ==
    IF list = <<>> THEN 0
    ELSE (IF Head(list).endTime > Head(list).startTime
          THEN Head(list).endTime - Head(list).startTime
          ELSE Head(list).startTime - Head(list).endTime)
         + PreemptionSumDistance(Tail(list))
\* reduce() of line 278 over one preemption array
RECURSIVE PreemptionSum(_)
PreemptionSum(list) ==
    IF list = <<>> THEN 0
    ELSE (IF Head(list).endTime > Head(list).startTime
          THEN Head(list).endTime - Head(list).startTime ELSE 0)
         + PreemptionSum(Tail(list))
\* SlicePreemption without the clamp of line 283
SlicePreemptionRaw(h, task) ==
    IF Len(h[task.preemptions]) > 0
    THEN PreemptionSum(h[task.preemptions])
    ELSE 0

\* preemptionTimeForThisSlice after the clamp of line 283
SlicePreemption(h, task) ==
    IF Len(h[task.preemptions]) > 0
    THEN IF PreemptionSum(h[task.preemptions]) > Duration(task)
         THEN Duration(task) ELSE PreemptionSum(h[task.preemptions])
    ELSE 0

\* the accumulations of the forEach of lines 271-287 over one group
RECURSIVE TotalRunTime(_)
TotalRunTime(group) ==
    IF group = <<>> THEN 0
    ELSE Duration(Head(group)) + TotalRunTime(Tail(group))
RECURSIVE TotalPreemptionTime(_, _)
TotalPreemptionTime(h, group) ==
    IF group = <<>> THEN 0
    ELSE SlicePreemption(h, Head(group)) + TotalPreemptionTime(h, Tail(group))
RECURSIVE PreemptionCount(_, _)
PreemptionCount(h, group) ==
    IF group = <<>> THEN 0
    ELSE Len(h[Head(group).preemptions]) + PreemptionCount(h, Tail(group))

\* CpuLoad without the clamp of line 296
CpuLoadUnclamped(actualRunTime, totalTimelineDuration) ==
    (actualRunTime * 10000) \div totalTimelineDuration

\* cpuLoad is kept in hundredths of a percent: the bigint quotient of line
\* 290 before the division by 100, clamped as line 296 clamps it
CpuLoad(actualRunTime, totalTimelineDuration) ==
    LET q == (actualRunTime * 10000) \div totalTimelineDuration
    IN  IF q < 0 THEN 0 ELSE IF q > 10000 THEN 10000 ELSE q

\* GroupStats whose average is taken of totalRunTime
GroupStatsAverageOfTotal(h, group, totalTimelineDuration) ==
    LET totalRunTime == TotalRunTime(group)
        totalPreemptionTime == TotalPreemptionTime(h, group)
        actualRunTime == totalRunTime - totalPreemptionTime
    IN  [totalRunTime |-> totalRunTime,
         actualRunTime |-> actualRunTime,
         runCount |-> Len(group),
         cpuLoad |-> CpuLoad(actualRunTime, totalTimelineDuration),
         averageRunTime |-> IF Len(group) > 0
                            THEN totalRunTime \div Len(group) ELSE 0,
         preemptionCount |-> PreemptionCount(h, group),
         totalPreemptionTime |-> totalPreemptionTime]

GroupStats(h, group, totalTimelineDuration) ==
    LET totalRunTime == TotalRunTime(group)
        totalPreemptionTime == TotalPreemptionTime(h, group)
        actualRunTime == totalRunTime - totalPreemptionTime
    IN  [totalRunTime |-> totalRunTime,
         actualRunTime |-> actualRunTime,
         runCount |-> Len(group),
         cpuLoad |-> CpuLoad(actualRunTime, totalTimelineDuration),
         averageRunTime |-> IF Len(group) > 0
                            THEN actualRunTime \div Len(group) ELSE 0,
         preemptionCount |-> PreemptionCount(h, group),
         totalPreemptionTime |-> totalPreemptionTime]

\* the stats objects calculateTaskStats allocates, in allocation order;
\* total is totalTimelineDuration and names the keys of taskGroups
StatsObjects(h, list, total, names) ==
    IF total <= 0
    THEN [i \in 1..Len(list) |-> createDefaultStats]
    ELSE [g \in 1..Len(names) |->
            GroupStats(h, GroupOf(list, names[g]), total)]
\* the stats object instance i of the list refers to
StatsRef(list, total, names, i) ==
    IF total <= 0 THEN i
    ELSE CHOOSE g \in 1..Len(names) : names[g] = list[i].name

\* the returned array: the instances with their preemption arrays and the
\* index of their stats object
Returned(h, list, total, names) ==
    [i \in 1..Len(list) |->
        [name |-> list[i].name, startTime |-> list[i].startTime,
         endTime |-> list[i].endTime, preemptions |-> h[list[i].preemptions],
         stats |-> StatsRef(list, total, names, i)]]

\* Return that runs the statistics pass on the empty list as well, and the
\* pass allocates a stats object before it looks at the list
ReturnEmptyWithStats(list) ==
    /\ pc = "decode"
    /\ pc' = "done"
    /\ IF Len(list) = 0
       THEN /\ result' = <<>>
            /\ statsHeap' = <<createDefaultStats>>
            /\ UNCHANGED tasks
       ELSE /\ tasks' = SortByStart(list)
            /\ LET total == TotalTimelineDuration(tasks')
                   names == GroupNames(tasks', <<>>)
               IN  /\ statsHeap' = StatsObjects(heap, tasks', total, names)
                   /\ result' = Returned(heap, tasks', total, names)
    /\ UNCHANGED <<heap, taskNameMap, isrNameMap, offset, lastEndTime,
                   taskStartMap, isrStartMap, activeTaskId, count, stream,
                   cpuFrequency, content, written, calls,
                   currentOverflowCount, lastTimestamp, times, buffer>>

\* lines 222-233 on the list `list': an empty list is returned as it is,
\* otherwise the list is sorted in place and given stats
Return(list) ==
    /\ pc = "decode"
    /\ pc' = "done"
    /\ IF Len(list) = 0
       THEN /\ result' = <<>>
            /\ UNCHANGED <<tasks, statsHeap>>
       ELSE /\ tasks' = SortByStart(list)
            /\ LET total == TotalTimelineDuration(tasks')
                   names == GroupNames(tasks', <<>>)
               IN  /\ statsHeap' = StatsObjects(heap, tasks', total, names)
                   /\ result' = Returned(heap, tasks', total, names)
    /\ UNCHANGED <<heap, taskNameMap, isrNameMap, offset, lastEndTime,
                   taskStartMap, isrStartMap, activeTaskId, count, stream,
                   cpuFrequency, content, written, calls,
                   currentOverflowCount, lastTimestamp, times, buffer>>

\* Finish that emits every unclosed task as an instance ending at its start
RECURSIVE Unclosed(_)
Unclosed(id) ==
    IF id > MaxId THEN <<>>
    ELSE (IF id \in DOMAIN taskStartMap
          THEN <<[name |-> TaskNameOf(id),
                  startTime |-> taskStartMap[id].startTime,
                  endTime |-> taskStartMap[id].startTime,
                  preemptions |-> taskStartMap[id].preemptions]>>
          ELSE <<>>) \o Unclosed(id + 1)
FinishEmitsUnclosed == Return(tasks \o Unclosed(0))

\* lines 216-233: the forEach over the unclosed tasks only looks at them, so
\* what is returned is made of the emitted instances alone
Finish == Return(tasks)

\* ---- the legacy text decoder: timestamps (src/src/utils/parser.ts) --------
\* A bigint below 2^32 * 2^31 is kept as its 32-bit words: low is the low
\* word as eight hexadecimal digits (most significant first), high the rest.
HexDigits == <<"0", "1", "2", "3", "4", "5", "6", "7", "8", "9",
               "A", "B", "C", "D", "E", "F">>
HexValue(c) == (CHOOSE d \in 1..16 : HexDigits[d] = c) - 1
RECURSIVE HexWord(_)
HexWord(str) ==
    IF str = "" THEN <<>> ELSE <<HexValue(Head(str))>> \o HexWord(Tail(str))
\* BigInt(`0x${hexTimestamp}`) for a timestamp of eight hexadecimal digits
BigIntOfHex(hexTimestamp) == [high |-> 0, low |-> HexWord(hexTimestamp)]
\* a < b on two words of the same length
RECURSIVE WordLess(_, _)
WordLess(a, b) ==
    IF a = <<>> THEN FALSE
    ELSE IF Head(a) # Head(b) THEN Head(a) < Head(b)
    ELSE WordLess(Tail(a), Tail(b))
BigLess(a, b) ==
    IF a.high # b.high THEN a.high < b.high ELSE WordLess(a.low, b.low)
\* raw + (count << 32) for a raw value below 2^32
PlusShifted(raw, overflowCount) == [high |-> raw.high + overflowCount, low |-> raw.low]

\* lines 110-112
OVERFLOW_THRESHOLD == BigIntOfHex("F0000000")
WrapLimit == BigIntOfHex("10000000")
LegacyLocals ==
    /\ currentOverflowCount = 0
    /\ lastTimestamp = BigIntOfHex("00000000")
    /\ times = <<>>

\* parseTimestamp (lines 114-133): the value returned and the value of
\* currentOverflowCount after the call
ParseTimestampResult(rawTimestamp) ==
    IF BigLess(OVERFLOW_THRESHOLD, lastTimestamp) /\ BigLess(rawTimestamp, WrapLimit)
    THEN [time |-> PlusShifted(rawTimestamp, currentOverflowCount + 1),
          overflowCount |-> currentOverflowCount]
    ELSE IF ~BigLess(OVERFLOW_THRESHOLD, lastTimestamp)
            /\ BigLess(OVERFLOW_THRESHOLD, rawTimestamp)
    THEN [time |-> PlusShifted(rawTimestamp, currentOverflowCount),
          overflowCount |-> currentOverflowCount]
    ELSE IF BigLess(rawTimestamp, lastTimestamp) /\ BigLess(rawTimestamp, WrapLimit)
    THEN [time |-> PlusShifted(rawTimestamp, currentOverflowCount + 1),
          overflowCount |-> currentOverflowCount + 1]
    ELSE [time |-> PlusShifted(rawTimestamp, currentOverflowCount),
          overflowCount |-> currentOverflowCount]

\* lines 17-27: the locals of parseBinaryLogFile
Locals ==
    /\ tasks = <<>>
    /\ heap = <<>>
    /\ taskNameMap = EmptyMap
    /\ isrNameMap = EmptyMap
    /\ offset = 0
    /\ lastEndTime = Null
    /\ taskStartMap = EmptyMap
    /\ isrStartMap = EmptyMap
    /\ activeTaskId = Null
    /\ pc = "decode"
    /\ result = <<>>
    /\ statsHeap = <<>>
    /\ count = 0
    /\ stream = <<>>
    /\ cpuFrequency = NoNumber

\* the specifications that draw the stream record by record keep no buffer
Init ==
    /\ Locals
    /\ content = <<>>
    /\ written = <<>>
    /\ calls = <<>>
    /\ LegacyLocals
    /\ buffer = <<>>

\* ---- specifications ----------------------------------------------------
\* a step of a specification that keeps no history: at most `max' records
Step(max) == count < max /\ UNCHANGED stream

\* Spec: streams of at most MaxRecords records of every kind, any timestamps
Next ==
    \/ \E id \in Ids, name \in Names :
            Step(MaxRecords) /\ SetupTaskMap(id, name)
    \/ \E id \in Ids, name \in Names :
            Step(MaxRecords) /\ SetupIsrMap(id, name)
    \/ \E id \in Ids, name \in Names :
            Step(MaxRecords) /\ SetupOther(id, name)
    \/ \E id \in Ids, t \in Times :
            Step(MaxRecords) /\ TaskStart(id, t)
    \/ \E id \in Ids, t \in Times :
            Step(MaxRecords) /\ TaskEnd(id, t)
    \/ \E s \in BOOLEAN, id \in Ids, t \in Times :
            Step(MaxRecords) /\ TaskCreate(s, id, t)
    \/ \E id \in Ids, t \in Times :
            Step(MaxRecords) /\ IsrEnter(id, t)
    \/ \E id \in Ids, t \in Times :
            Step(MaxRecords) /\ IsrExit(id, t)
    \/ \E s \in BOOLEAN, id \in Ids, t \in Times :
            Step(MaxRecords) /\ UnknownEvent(s, id, t)
    \/ Finish

Spec == Init /\ [][Next]_vars

\* SpecPairing: streams of at most MaxEvents task-switch and interrupt events,
\* any timestamps
NextPairing ==
    \/ \E id \in Ids, t \in Times : Step(MaxEvents) /\ TaskStart(id, t)
    \/ \E id \in Ids, t \in Times : Step(MaxEvents) /\ TaskEnd(id, t)
    \/ \E id \in Ids, t \in Times : Step(MaxEvents) /\ IsrEnter(id, t)
    \/ \E id \in Ids, t \in Times : Step(MaxEvents) /\ IsrExit(id, t)
    \/ Finish

SpecPairing == Init /\ [][NextPairing]_vars

\* SpecSetup: streams of at most MaxSetup records: setup records of the four
\* kinds, task-switch and interrupt events, any timestamps
NextSetup ==
    \/ \E id \in Ids, name \in Names :
            Step(MaxSetup) /\ SetupTaskMap(id, name)
    \/ \E id \in Ids, name \in Names :
            Step(MaxSetup) /\ SetupIsrMap(id, name)
    \/ \E id \in Ids, name \in Names :
            Step(MaxSetup) /\ SetupOther(id, name)
    \/ \E id \in Ids, name \in InfoNames :
            Step(MaxSetup) /\ SetupInfo(id, name)
    \/ \E id \in Ids, t \in Times : Step(MaxSetup) /\ TaskStart(id, t)
    \/ \E id \in Ids, t \in Times : Step(MaxSetup) /\ TaskEnd(id, t)
    \/ \E id \in Ids, t \in Times : Step(MaxSetup) /\ IsrEnter(id, t)
    \/ \E id \in Ids, t \in Times : Step(MaxSetup) /\ IsrExit(id, t)
    \/ Finish

SpecSetup == Init /\ [][NextSetup]_vars

\* SpecStats: streams of at most MaxStatEvents task-switch and interrupt
\* events of id 0, with timestamps 0..MaxStatTime in any order
StatTimes == 0..MaxStatTime
NextStats ==
    \/ \E t \in StatTimes : Step(MaxStatEvents) /\ TaskStart(0, t)
    \/ \E t \in StatTimes : Step(MaxStatEvents) /\ TaskEnd(0, t)
    \/ \E t \in StatTimes : Step(MaxStatEvents) /\ IsrEnter(0, t)
    \/ \E t \in StatTimes : Step(MaxStatEvents) /\ IsrExit(0, t)
    \/ Finish

SpecStats == Init /\ [][NextStats]_vars

\* ---- the buffer, byte by byte --------------------------------------------
\* Buffer.readUInt8 and Buffer.readBigUInt64LE at a byte offset
ReadUInt8(buf, at) == buf[at + 1]
RECURSIVE ReadLE(_, _, _)
ReadLE(buf, at, n) ==
    IF n = 0 THEN 0 ELSE buf[at + 1] + 256 * ReadLE(buf, at + 1, n - 1)
ReadBigUInt64LE(buf, at) == ReadLE(buf, at, 8)
\* Buffer.subarray(start, end): both ends are clamped to the buffer
Subarray(buf, start, end) ==
    SubSeq(buf, start + 1, IF end > Len(buf) THEN Len(buf) ELSE end)

\* the characters of the names drawn, with their UTF-8 (ASCII) byte
Ascii == <<<<"U", 85>>, <<"C", 67>>, <<"L", 76>>, <<"K", 75>>, <<":", 58>>,
           <<"8", 56>>>>
CharOf(byte) == Ascii[CHOOSE i \in 1..Len(Ascii) : Ascii[i][2] = byte][1]
ByteOf(char) == Ascii[CHOOSE i \in 1..Len(Ascii) : Ascii[i][1] = char][2]
\* Buffer.toString('utf-8') on bytes of that table
RECURSIVE Utf8ToString(_)
Utf8ToString(bytes) ==
    IF bytes = <<>> THEN ""
    ELSE CharOf(Head(bytes)) \o Utf8ToString(Tail(bytes))

\* ---- the byte layout of the records, as the loop reads it ---------------
RECURSIVE Utf8Bytes(_)
Utf8Bytes(str) ==
    IF str = "" THEN <<>> ELSE <<ByteOf(Head(str))>> \o Utf8Bytes(Tail(str))
RECURSIVE LittleEndian(_, _)
LittleEndian(value, n) ==
    IF n = 0 THEN <<>>
    ELSE <<value % 256>> \o LittleEndian(value \div 256, n - 1)
EncodeRecord(r) ==
    IF r.rec = "setup"
    THEN <<r.setupCode, r.id, Len(Utf8Bytes(r.name))>> \o Utf8Bytes(r.name)
    ELSE <<r.typeByte, r.id>> \o LittleEndian(r.timestamp, 8)
RECURSIVE EncodeStream(_)
EncodeStream(records) ==
    IF records = <<>> THEN <<>>
    ELSE EncodeRecord(Head(records)) \o EncodeStream(Tail(records))

\* the whole records a stream of SpecBytes is made of: setup records of the
\* four kinds with names of 0, 1 and 5 bytes, and events of every kind,
\* one of them with a two-byte timestamp
WrittenRecords ==
    { SetupRecord(PROF_SETUP_TASK_MAP, 0, "U"),
      SetupRecord(PROF_SETUP_ISR_MAP, 0, ""),
      SetupRecord(PROF_SETUP_INFO, 0, "CLK:8"),
      SetupRecord(UnknownSetup, 0, "U"),
      EventRecord(TypeByte(PROF_EVENT_TASK_SWITCH, TRUE), 0, 0),
      EventRecord(TypeByte(PROF_EVENT_TASK_SWITCH, FALSE), 0, 1),
      EventRecord(TypeByte(PROF_EVENT_TASK_SWITCH, TRUE), 1, 257),
      EventRecord(TypeByte(PROF_EVENT_ISR, TRUE), 0, 1),
      EventRecord(TypeByte(PROF_EVENT_ISR, FALSE), 0, 1),
      EventRecord(TypeByte(PROF_EVENT_TASK_CREATE, FALSE), 0, 1),
      EventRecord(TypeByte(UnknownKind, TRUE), 0, 1) }
WrittenStreams(max) ==
    UNION {[1..n -> WrittenRecords] : n \in 0..max}

\* the buffer is the first k bytes of a stream of at most `max' whole
\* records, for every k
InitBytes(max) ==
    /\ Locals
    /\ calls = <<>>
    /\ LegacyLocals
    /\ buffer = <<>>
    /\ written \in WrittenStreams(max)
    /\ \E k \in 0..Len(EncodeStream(written)) :
            content = SubSeq(EncodeStream(written), 1, k)

\* line 36
IsSetupPacket(packetType) == packetType >= 112 /\ packetType <= 127
\* the negations of the tests of lines 37, 45 and 78
HeaderFits == ~(offset + 3 > Len(content))
\* NameFits that looks at the header only
NameFitsHeader(nameLen) == HeaderFits
NameFits(nameLen) == ~(offset + 3 + nameLen > Len(content))
EventFits == ~(offset + packetSize > Len(content))

\* one iteration of the loop on a setup record that fits
DecodeSetup ==
    /\ offset < Len(content)
    /\ IsSetupPacket(ReadUInt8(content, offset))
    /\ HeaderFits
    /\ LET setupCode == ReadUInt8(content, offset)
           id == ReadUInt8(content, offset + 1)
           nameLen == ReadUInt8(content, offset + 2)
           name == Utf8ToString(Subarray(content, offset + 3,
                                         offset + 3 + nameLen))
       IN  /\ NameFits(nameLen)
           /\ stream' = Append(stream, SetupRecord(setupCode, id, name))
           /\ IF setupCode = PROF_SETUP_TASK_MAP THEN SetupTaskMap(id, name)
              ELSE IF setupCode = PROF_SETUP_ISR_MAP THEN SetupIsrMap(id, name)
              ELSE IF setupCode = PROF_SETUP_INFO THEN SetupInfo(id, name)
              ELSE SetupOther(id, name)

\* one iteration of the loop on an event record that fits
DecodeEvent ==
    /\ offset < Len(content)
    /\ ~IsSetupPacket(ReadUInt8(content, offset))
    /\ EventFits
    /\ LET typeByte == ReadUInt8(content, offset)
           eventType == EventTypeOf(typeByte)
           isStartEvent == IsStartEvent(typeByte)
           id == ReadUInt8(content, offset + 1)
           timestamp == ReadBigUInt64LE(content, offset + 2)
       IN  /\ stream' = Append(stream, EventRecord(typeByte, id, timestamp))
           /\ IF eventType = PROF_EVENT_TASK_SWITCH
              THEN IF isStartEvent THEN TaskStart(id, timestamp)
                                   ELSE TaskEnd(id, timestamp)
              ELSE IF eventType = PROF_EVENT_TASK_CREATE
              THEN TaskCreate(isStartEvent, id, timestamp)
              ELSE IF eventType = PROF_EVENT_ISR
              THEN IF isStartEvent THEN IsrEnter(id, timestamp)
                                   ELSE IsrExit(id, timestamp)
              ELSE UnknownEvent(isStartEvent, id, timestamp)

\* the iteration that leaves the loop by one of the three `break's, and the
\* code after the loop
Truncated ==
    /\ offset < Len(content)
    /\ IF IsSetupPacket(ReadUInt8(content, offset))
       THEN IF HeaderFits THEN ~NameFits(ReadUInt8(content, offset + 2))
                          ELSE TRUE
       ELSE ~EventFits
    /\ Finish

\* the loop condition of line 32 is false, and the code after the loop
EndOfBuffer ==
    /\ ~(offset < Len(content))
    /\ Finish

NextBytes ==
    \/ DecodeSetup
    \/ DecodeEvent
    \/ Truncated
    \/ EndOfBuffer

SpecBytes == InitBytes(MaxWritten) /\ [][NextBytes]_vars

\* the loop is sequential code: an iteration that can run does run
SpecBytesFair ==
    InitBytes(MaxWrittenFair) /\ [][NextBytes]_vars /\ WF_vars(NextBytes)

\* ---- one call after another ----------------------------------------------
\* the buffers of SpecCalls: whole records, with and without a TASK_MAP
\* record, with open, closed and unmatched intervals
CallStart == EventRecord(TypeByte(PROF_EVENT_TASK_SWITCH, TRUE), 0, 0)
CallEnd == EventRecord(TypeByte(PROF_EVENT_TASK_SWITCH, FALSE), 0, 1)
CallMap == SetupRecord(PROF_SETUP_TASK_MAP, 0, "U")
CallBuffers ==
    { EncodeStream(records) : records \in
        { <<>>, <<CallMap>>, <<CallStart>>, <<CallEnd>>,
          <<CallStart, CallEnd>>, <<CallMap, CallStart, CallEnd>>,
          <<CallStart, CallEnd, CallStart, CallEnd>> } }

InitCalls ==
    /\ Locals
    /\ content \in CallBuffers
    /\ written = <<>>
    /\ calls = <<>>
    /\ LegacyLocals
    /\ buffer = <<>>

\* CallAgain with the name tables declared outside the function
CallAgainSharedTables ==
    /\ pc = "done"
    /\ Len(calls) + 1 < MaxCalls
    /\ calls' = Append(calls, [content |-> content, result |-> result,
                               stats |-> statsHeap])
    /\ content' \in CallBuffers
    /\ tasks' = <<>>
    /\ heap' = <<>>
    /\ offset' = 0
    /\ lastEndTime' = Null
    /\ taskStartMap' = EmptyMap
    /\ isrStartMap' = EmptyMap
    /\ activeTaskId' = Null
    /\ pc' = "decode"
    /\ result' = <<>>
    /\ statsHeap' = <<>>
    /\ count' = 0
    /\ stream' = <<>>
    /\ cpuFrequency' = NoNumber
    /\ UNCHANGED <<taskNameMap, isrNameMap, written, currentOverflowCount,
                   lastTimestamp, times, buffer>>

\* the next call of parseBinaryLogFile: every piece of decode state is a
\* local of the function, constructed anew (lines 17-27)
CallAgain ==
    /\ pc = "done"
    /\ Len(calls) + 1 < MaxCalls
    /\ calls' = Append(calls, [content |-> content, result |-> result,
                               stats |-> statsHeap])
    /\ content' \in CallBuffers
    /\ tasks' = <<>>
    /\ heap' = <<>>
    /\ taskNameMap' = EmptyMap
    /\ isrNameMap' = EmptyMap
    /\ offset' = 0
    /\ lastEndTime' = Null
    /\ taskStartMap' = EmptyMap
    /\ isrStartMap' = EmptyMap
    /\ activeTaskId' = Null
    /\ pc' = "decode"
    /\ result' = <<>>
    /\ statsHeap' = <<>>
    /\ count' = 0
    /\ stream' = <<>>
    /\ cpuFrequency' = NoNumber
    /\ UNCHANGED <<written, currentOverflowCount, lastTimestamp, times, buffer>>

\* SpecCalls: at most MaxCalls calls, one after the other, each on any of
\* the buffers
NextCalls ==
    \/ DecodeSetup
    \/ DecodeEvent
    \/ EndOfBuffer
    \/ CallAgain

SpecCalls == InitCalls /\ [][NextCalls]_vars

\* ---- preprocessing of the file (src/electron/main.js) --------------------
\* the delimiter byte removed by preprocessLogBinary
Delimiter == 9

\* preprocessLogBinary (lines 142-176): the loop from position i on, with
\* cleanBytes collected so far
RECURSIVE PreprocessFrom(_, _, _)
PreprocessFrom(buf, i, cleanBytes) ==
    IF ~(i < Len(buf)) THEN cleanBytes
    ELSE IF ReadUInt8(buf, i) = Delimiter
    THEN PreprocessFrom(buf, i + 1, cleanBytes)
    ELSE IF ReadUInt8(buf, i) >= 112 /\ ReadUInt8(buf, i) <= 127
    THEN IF i + 2 >= Len(buf) THEN cleanBytes
         ELSE LET nameLen == ReadUInt8(buf, i + 2)
              IN  IF i + 3 + nameLen > Len(buf) THEN cleanBytes
                  ELSE PreprocessFrom(buf, i + 3 + nameLen,
                        cleanBytes \o SubSeq(buf, i + 1, i + 3 + nameLen))
    ELSE IF ReadUInt8(buf, i) % (PROF_EVENT_TYPE_MASK + 1)
                \in {PROF_EVENT_TASK_SWITCH, PROF_EVENT_ISR}
    THEN IF i + 10 > Len(buf) THEN cleanBytes
         ELSE PreprocessFrom(buf, i + 10,
                cleanBytes \o SubSeq(buf, i + 1, i + 10))
    ELSE PreprocessFrom(buf, i + 1, cleanBytes)
preprocessLogBinary(buf) == PreprocessFrom(buf, 0, <<>>)

\* the whole records a file of SpecPreprocess is made of: the records the
\* decoder understands.  The create record is drawn with id 0 and timestamp
\* 0, so that each of its bytes is skipped on its own; with other values
\* preprocessLogBinary takes a byte inside the record for the start of a
\* record.
RawRecords ==
    { SetupRecord(PROF_SETUP_TASK_MAP, 0, "U"),
      SetupRecord(PROF_SETUP_ISR_MAP, 0, ""),
      SetupRecord(PROF_SETUP_INFO, 0, "CLK:8"),
      EventRecord(TypeByte(PROF_EVENT_TASK_SWITCH, TRUE), 0, 0),
      EventRecord(TypeByte(PROF_EVENT_TASK_SWITCH, FALSE), 0, 1),
      EventRecord(TypeByte(PROF_EVENT_TASK_SWITCH, TRUE), 1, 257),
      EventRecord(TypeByte(PROF_EVENT_ISR, TRUE), 0, 1),
      EventRecord(TypeByte(PROF_EVENT_ISR, FALSE), 0, 1),
      EventRecord(TypeByte(PROF_EVENT_TASK_CREATE, FALSE), 0, 0) }
\* the records back to back, with a delimiter byte before record k + 1 for
\* every k of `marks' (after the last record for k = Len(records))
RECURSIVE Delimited(_, _, _)
Delimited(records, marks, k) ==
    (IF k \in marks THEN <<Delimiter>> ELSE <<>>)
    \o (IF k >= Len(records) THEN <<>>
        ELSE EncodeRecord(records[k + 1]) \o Delimited(records, marks, k + 1))

\* the file holds at most MaxRaw whole records with delimiter bytes between
\* them; the first call decodes the records themselves
InitPreprocess ==
    /\ Locals
    /\ calls = <<>>
    /\ LegacyLocals
    /\ written \in UNION {[1..n -> RawRecords] : n \in 0..MaxRaw}
    /\ \E marks \in SUBSET (0..Len(written)) :
            buffer = Delimited(written, marks, 0)
    /\ content = EncodeStream(written)

\* the file is preprocessed (main.js line 132) and its result decoded by a
\* new call of parseBinaryLogFile
PreprocessAndDecode ==
    /\ pc = "done"
    /\ calls = <<>>
    /\ calls' = Append(calls, [content |-> content, result |-> result,
                               stats |-> statsHeap])
    /\ content' = preprocessLogBinary(buffer)
    /\ tasks' = <<>>
    /\ heap' = <<>>
    /\ taskNameMap' = EmptyMap
    /\ isrNameMap' = EmptyMap
    /\ offset' = 0
    /\ lastEndTime' = Null
    /\ taskStartMap' = EmptyMap
    /\ isrStartMap' = EmptyMap
    /\ activeTaskId' = Null
    /\ pc' = "decode"
    /\ result' = <<>>
    /\ statsHeap' = <<>>
    /\ count' = 0
    /\ stream' = <<>>
    /\ cpuFrequency' = NoNumber
    /\ UNCHANGED <<written, currentOverflowCount, lastTimestamp, times, buffer>>

\* SpecPreprocess: the records are decoded, then the file is preprocessed
\* and decoded
NextPreprocess ==
    \/ DecodeSetup
    \/ DecodeEvent
    \/ EndOfBuffer
    \/ PreprocessAndDecode

SpecPreprocess == InitPreprocess /\ [][NextPreprocess]_vars

\* ---- the legacy text decoder --------------------------------------------
\* the timestamp fields drawn: eight hexadecimal digits, at and around the
\* two limits of parseTimestamp and the two ends of the 32-bit range
RawStamps == {"00000000", "00000001", "0FFFFFFF", "10000000",
              "F0000000", "F0000001", "FFFFFFFF"}

\* one iteration of the loop of parseLogFile as far as timestamps go (lines
\* 135-138): the timestamp field of the match is extended and stored
ParseMatch(hexTimestamp) ==
    LET parsed == ParseTimestampResult(BigIntOfHex(hexTimestamp))
    IN  /\ Len(times) < MaxMatches
        /\ currentOverflowCount' = parsed.overflowCount
        /\ lastTimestamp' = parsed.time
        /\ times' = Append(times, [raw |-> BigIntOfHex(hexTimestamp),
                                   time |-> parsed.time])
        /\ UNCHANGED <<tasks, heap, taskNameMap, isrNameMap, offset,
                       lastEndTime, taskStartMap, isrStartMap, activeTaskId,
                       pc, result, statsHeap, count, stream, cpuFrequency,
                       content, written, calls, buffer>>

\* SpecLegacy: texts of at most MaxMatches matches, any timestamp fields
NextLegacy == \E hexTimestamp \in RawStamps : ParseMatch(hexTimestamp)

SpecLegacy == Init /\ [][NextLegacy]_vars

\* SpecTrace: streams of at most MaxTrace task-switch, interrupt and
\* task-create events whose timestamps strictly increase (a running cycle
\* counter); the stream is kept in the history variable.  Create events
\* are drawn with the flag bit clear (Spec draws both values).
LastStamp == IF stream = <<>> THEN Null ELSE stream[Len(stream)].timestamp
Later == {t \in 0..MaxStamp : t > LastStamp}
Logged(kind, start, id, t) ==
    /\ count < MaxTrace
    /\ stream' = Append(stream, EventRecord(TypeByte(kind, start), id, t))

NextTrace ==
    \/ \E id \in Ids, t \in Later :
            Logged(PROF_EVENT_TASK_SWITCH, TRUE, id, t) /\ TaskStart(id, t)
    \/ \E id \in Ids, t \in Later :
            Logged(PROF_EVENT_TASK_SWITCH, FALSE, id, t) /\ TaskEnd(id, t)
    \/ \E id \in Ids, t \in Later :
            Logged(PROF_EVENT_ISR, TRUE, id, t) /\ IsrEnter(id, t)
    \/ \E id \in Ids, t \in Later :
            Logged(PROF_EVENT_ISR, FALSE, id, t) /\ IsrExit(id, t)
    \/ \E id \in Ids, t \in Later :
            Logged(PROF_EVENT_TASK_CREATE, FALSE, id, t) /\ TaskCreate(FALSE, id, t)
    \/ Finish

SpecTrace == Init /\ [][NextTrace]_vars

\* ---- properties --------------------------------------------------------
IsGap(inst) == inst.name = "_RTOS_"
IsCreate(inst) == inst.name = "RTOS:Create"
GapCount(list) == Cardinality({i \in 1..Len(list) : IsGap(list[i])})
\* list2 is list1 with exactly the instances of `more' appended
Appends(list1, list2, n) ==
    /\ Len(list2) = Len(list1) + n
    /\ SubSeq(list2, 1, Len(list1)) = list1
\* the preemption array of task id's open interval
OpenList(h, m, id) == h[m[id].preemptions]

\* C1: a task-end (X, t) for an open X appends exactly one instance
\* {name(X), s, t, P}, closes X, sets lastEndTime to t and clears
\* activeTaskId iff it named X.
C1_TaskEndPairs ==
    [][\A id \in Ids, t \in Times :
        (id \in DOMAIN taskStartMap /\ TaskEnd(id, t)) =>
            /\ Appends(tasks, tasks', 1)
            /\ LET inst == tasks'[Len(tasks')]
               IN  /\ inst.name = TaskNameOf(id)
                   /\ inst.startTime = taskStartMap[id].startTime
                   /\ inst.endTime = t
                   /\ heap'[inst.preemptions] = OpenList(heap, taskStartMap, id)
            /\ id \notin DOMAIN taskStartMap'
            /\ lastEndTime' = t
            /\ activeTaskId' = (IF activeTaskId = id THEN Null ELSE activeTaskId)
      ]_vars

\* a task with a preemption has ended while another task is the active one
C1_Witness ==
    /\ Len(tasks) = 1
    /\ heap[tasks[1].preemptions] # <<>>
    /\ activeTaskId # Null
    /\ lastEndTime # Null

\* C2: a task-start (X, t) appends one gap _RTOS_ [lastEndTime, t) when
\* lastEndTime is set and t > lastEndTime and appends nothing otherwise;
\* afterwards X is Open(t, []), activeTaskId = X and lastEndTime is unset.
C2_TaskStartGap ==
    [][\A id \in Ids, t \in Times :
        TaskStart(id, t) =>
            /\ IF lastEndTime # Null /\ t > lastEndTime
               THEN /\ Appends(tasks, tasks', 1)
                    /\ LET gap == tasks'[Len(tasks')]
                       IN  /\ IsGap(gap)
                           /\ gap.startTime = lastEndTime
                           /\ gap.endTime = t
                           /\ heap'[gap.preemptions] = <<>>
               ELSE tasks' = tasks
            /\ id \in DOMAIN taskStartMap'
            /\ taskStartMap'[id].startTime = t
            /\ OpenList(heap', taskStartMap', id) = <<>>
            /\ activeTaskId' = id
            /\ lastEndTime' = Null
      ]_vars

\* a task ended at 0 and a task start at 1 has just appended the gap {0, 1}
C2_Witness ==
    /\ Len(tasks) = 2
    /\ ~IsGap(tasks[1]) /\ tasks[1].endTime = 0
    /\ IsGap(tasks[2]) /\ tasks[2].startTime = 0 /\ tasks[2].endTime = 1
    /\ lastEndTime = Null
    /\ activeTaskId # Null
    /\ taskStartMap[activeTaskId].startTime = 1

\* C3: processing an interrupt-enter, interrupt-exit or task-end event never
\* appends a gap instance.
C3_NoGapOnEnterExitEnd ==
    [][\A id \in Ids, t \in Times :
        (IsrEnter(id, t) \/ IsrExit(id, t) \/ TaskEnd(id, t)) =>
            GapCount(tasks') = GapCount(tasks)
      ]_vars

\* C4: an interrupt-exit (Y, t) for a Y opened at s (any s, 0 included) and
\* not exited since appends exactly one instance {"ISR:" + name(Y), s, t}
\* with no preemptions, and Y becomes Closed.
C4_IsrExitPairs ==
    [][\A id \in Ids, t \in Times :
        (id \in DOMAIN isrStartMap /\ IsrExit(id, t)) =>
            /\ Appends(tasks, tasks', 1)
            /\ LET inst == tasks'[Len(tasks')]
               IN  /\ inst.name = "ISR:" \o IsrNameOf(id)
                   /\ inst.startTime = isrStartMap[id]
                   /\ inst.endTime = t
                   /\ heap'[inst.preemptions] = <<>>
            /\ id \notin DOMAIN isrStartMap'
      ]_vars

\* C5: an interrupt-enter (Y, t) sets Y to Open(t); if the active task is
\* open it appends {t, 0, isrName(Y)} at the end of that task's preemption
\* array; every other array, lastEndTime and activeTaskId are unchanged, and
\* with no active task no preemption is recorded anywhere.
C5_IsrEnterFrame ==
    [][\A id \in Ids, t \in Times :
        IsrEnter(id, t) =>
            /\ id \in DOMAIN isrStartMap' /\ isrStartMap'[id] = t
            /\ taskStartMap' = taskStartMap
            /\ ActiveTaskOpen =>
                    OpenList(heap', taskStartMap, activeTaskId) =
                        Append(OpenList(heap, taskStartMap, activeTaskId),
                               [startTime |-> t, endTime |-> 0,
                                isrName |-> IsrNameOf(id)])
            /\ \A r \in 1..Len(heap) :
                    \/ ActiveTaskOpen /\ r = taskStartMap[activeTaskId].preemptions
                    \/ heap'[r] = heap[r]
            /\ \A r \in (Len(heap) + 1)..Len(heap') : heap'[r] = <<>>
            /\ lastEndTime' = lastEndTime
            /\ activeTaskId' = activeTaskId
      ]_vars

\* two tasks are open, each with a preemption recorded while it was active
C5_Witness ==
    /\ Cardinality(DOMAIN taskStartMap) = 2
    /\ \A x \in DOMAIN taskStartMap :
            /\ Len(OpenList(heap, taskStartMap, x)) = 1
            /\ OpenList(heap, taskStartMap, x)[1].endTime = 0
            /\ OpenList(heap, taskStartMap, x)[1].startTime = 1

\* the last preemption of `list' named isrName whose end is unset, 0 if none
LastUnset(list, isrName) ==
    IF \E i \in 1..Len(list) : list[i].isrName = isrName /\ list[i].endTime = 0
    THEN CHOOSE i \in 1..Len(list) :
            /\ list[i].isrName = isrName /\ list[i].endTime = 0
            /\ \A j \in (i + 1)..Len(list) :
                    ~(list[j].isrName = isrName /\ list[j].endTime = 0)
    ELSE 0

\* C6: an interrupt-exit (Y, t) for an open Y while the active task is open
\* sets end = t in the last preemption of the active task named name(Y) with
\* unset end, and changes no other preemption; with no such preemption it
\* changes none.
C6_IsrExitClosesPreemption ==
    [][\A id \in Ids, t \in Times :
        (id \in DOMAIN isrStartMap /\ ActiveTaskOpen /\ IsrExit(id, t)) =>
            LET r == taskStartMap[activeTaskId].preemptions
                k == LastUnset(heap[r], IsrNameOf(id))
            IN  /\ heap'[r] = IF k = 0 THEN heap[r]
                                ELSE [heap[r] EXCEPT ![k].endTime = t]
                /\ \A q \in (1..Len(heap)) \ {r} : heap'[q] = heap[q]
      ]_vars

\* name, times and preemptions of the returned instances
Plain(list) ==
    [i \in 1..Len(list) |->
        [name |-> list[i].name, startTime |-> list[i].startTime,
         endTime |-> list[i].endTime, preemptions |-> list[i].preemptions]]
TaskStartRecord(id, t) == EventRecord(TypeByte(PROF_EVENT_TASK_SWITCH, TRUE), id, t)
TaskEndRecord(id, t) == EventRecord(TypeByte(PROF_EVENT_TASK_SWITCH, FALSE), id, t)
IsrEnterRecord(id, t) == EventRecord(TypeByte(PROF_EVENT_ISR, TRUE), id, t)
IsrExitRecord(id, t) == EventRecord(TypeByte(PROF_EVENT_ISR, FALSE), id, t)

\* the stream is task-start(X, s), interrupt-enter(Y, a), interrupt-exit(Y, b),
\* task-end(X, e) with s < a < b < e, and nothing else
NestedStream ==
    /\ Len(stream) = 4
    /\ stream[1] = TaskStartRecord(stream[1].id, stream[1].timestamp)
    /\ stream[2] = IsrEnterRecord(stream[2].id, stream[2].timestamp)
    /\ stream[3] = IsrExitRecord(stream[2].id, stream[3].timestamp)
    /\ stream[4] = TaskEndRecord(stream[1].id, stream[4].timestamp)
    /\ stream[1].timestamp < stream[2].timestamp
    /\ stream[2].timestamp < stream[3].timestamp
    /\ stream[3].timestamp < stream[4].timestamp

\* C7: for s < a < b < e the stream task-start(X, s), interrupt-enter(Y, a),
\* interrupt-exit(Y, b), task-end(X, e) returns exactly the task instance
\* {name(X), s, e} with the preemptions [{isrName(Y), a, b}] and the
\* instance {"ISR:" + isrName(Y), a, b}.
C7_NestedInterrupt ==
    (pc = "done" /\ NestedStream) =>
        LET X == stream[1].id
            Y == stream[2].id
            s == stream[1].timestamp
            a == stream[2].timestamp
            b == stream[3].timestamp
            e == stream[4].timestamp
        IN  Plain(result) =
            << [name |-> TaskNameOf(X), startTime |-> s, endTime |-> e,
                preemptions |-> <<[startTime |-> a, endTime |-> b,
                                   isrName |-> IsrNameOf(Y)]>>],
               [name |-> "ISR:" \o IsrNameOf(Y), startTime |-> a,
                endTime |-> b, preemptions |-> <<>>] >>

\* the four-event stream has been decoded and returned
C7_Witness ==
    /\ pc = "done"
    /\ stream = <<TaskStartRecord(1, 0), IsrEnterRecord(0, 1),
                  IsrExitRecord(0, 2), TaskEndRecord(1, 3)>>
    /\ Len(result) = 2

C9_UnmatchedEndNoOp ==
    [][\A id \in Ids, t \in Times :
        ( \/ id \notin DOMAIN taskStartMap /\ TaskEnd(id, t)
          \/ id \notin DOMAIN isrStartMap /\ IsrExit(id, t) ) =>
            /\ tasks' = tasks
            /\ taskStartMap' = taskStartMap
            /\ isrStartMap' = isrStartMap
            /\ heap' = heap
            /\ lastEndTime' = lastEndTime
            /\ activeTaskId' = activeTaskId
            /\ pc' = "decode"
            /\ offset' = offset + packetSize
      ]_vars

\* three records were consumed, two of them unmatched ends or exits: one
\* task is open and active, nothing was emitted, no interrupt is open
C9_Witness ==
    /\ count = 3
    /\ tasks = <<>>
    /\ Len(heap) = 1
    /\ DOMAIN taskStartMap = {activeTaskId}
    /\ heap[1] = <<>>
    /\ DOMAIN isrStartMap = {}
    /\ lastEndTime = Null

\* instance `inst' is the pair of the end or exit event stream[j] and the
\* last start or enter event for the same id before it
PairedWith(inst, j) ==
    LET e == stream[j]
        kind == EventTypeOf(e.typeByte)
        opens == {i \in 1..(j - 1) :
                    /\ IsStartEvent(stream[i].typeByte)
                    /\ EventTypeOf(stream[i].typeByte) = kind
                    /\ stream[i].id = e.id}
    IN  /\ ~IsStartEvent(e.typeByte)
        /\ kind \in {PROF_EVENT_TASK_SWITCH, PROF_EVENT_ISR}
        /\ inst.name = IF kind = PROF_EVENT_TASK_SWITCH
                       THEN TaskNameOf(e.id) ELSE "ISR:" \o IsrNameOf(e.id)
        /\ inst.endTime = e.timestamp
        /\ opens # {}
        /\ \E i \in opens : /\ \A k \in opens : k <= i
                             /\ inst.startTime = stream[i].timestamp
\* the instances that are neither gaps nor create markers
Paired(list) == {i \in 1..Len(list) : ~IsGap(list[i]) /\ ~IsCreate(list[i])}

\* C10: every instance that is neither a gap nor a create marker is the
\* pair of an end or exit event of the stream (its own one) and the most
\* recent start or enter event for the same id before it; a task or
\* interrupt still open when the stream ends has no instance in the result.
C10_NoInstanceWithoutPair ==
    /\ \E g \in [Paired(tasks) -> 1..Len(stream)] :
            /\ \A i \in Paired(tasks), j \in Paired(tasks) : g[i] = g[j] => i = j
            /\ \A i \in Paired(tasks) : PairedWith(tasks[i], g[i])
    /\ pc = "done" =>
            /\ Len(result) = Len(tasks)
            /\ \A i \in 1..Len(result) :
                    /\ result[i].name = tasks[i].name
                    /\ result[i].startTime = tasks[i].startTime
                    /\ result[i].endTime = tasks[i].endTime
            /\ \A id \in DOMAIN taskStartMap : \A i \in 1..Len(result) :
                    ~( /\ result[i].name = TaskNameOf(id)
                       /\ result[i].startTime = taskStartMap[id].startTime )
            /\ \A id \in DOMAIN isrStartMap : \A i \in 1..Len(result) :
                    ~( /\ result[i].name = "ISR:" \o IsrNameOf(id)
                       /\ result[i].startTime = isrStartMap[id] )

\* a stream has been returned in which one task was paired, a restarted
\* task and an entered interrupt are still open
C10_Witness ==
    /\ pc = "done"
    /\ Cardinality(Paired(result)) = 1
    /\ DOMAIN taskStartMap # {}
    /\ DOMAIN isrStartMap # {}
    /\ Len(stream) = MaxTrace

\* C11: an event record of an unknown kind, with either flag value and any
\* timestamp, only moves the cursor by 10 bytes: it appends no instance (no
\* gap either) and leaves the open tasks, the open interrupts, lastEndTime
\* and activeTaskId unchanged.
C11_UnknownEventSkipped ==
    [][\A s \in BOOLEAN, id \in Ids, t \in Times :
        UnknownEvent(s, id, t) =>
            /\ offset' = offset + packetSize
            /\ tasks' = tasks
            /\ heap' = heap
            /\ taskStartMap' = taskStartMap
            /\ isrStartMap' = isrStartMap
            /\ lastEndTime' = lastEndTime
            /\ activeTaskId' = activeTaskId
      ]_vars

\* the reconstructor: what a setup record must leave alone
ReconstructorUnchanged ==
    /\ tasks' = tasks
    /\ heap' = heap
    /\ taskStartMap' = taskStartMap
    /\ isrStartMap' = isrStartMap
    /\ lastEndTime' = lastEndTime
    /\ activeTaskId' = activeTaskId
\* table m2 is table m1 with the entry of id set to name and no other change
OnlyEntry(m1, m2, id, name) ==
    /\ DOMAIN m2 = DOMAIN m1 \cup {id}
    /\ m2[id] = name
    /\ \A x \in DOMAIN m1 \ {id} : m2[x] = m1[x]

\* C12: a setup record moves the cursor by exactly 3 + nameLen and leaves the
\* instance list, the open tasks, the open interrupts, lastEndTime and
\* activeTaskId unchanged; TASK_MAP changes only the task-table entry of its
\* id, ISR_MAP only the interrupt-table entry of its id, an opcode that is
\* none of TASK_MAP, ISR_MAP, INFO changes neither table.
C12_SetupFrame ==
    [][ /\ \A id \in Ids, name \in Names :
            /\ SetupTaskMap(id, name) =>
                    /\ offset' = offset + 3 + Len(name)
                    /\ ReconstructorUnchanged
                    /\ OnlyEntry(taskNameMap, taskNameMap', id, name)
                    /\ isrNameMap' = isrNameMap
            /\ SetupIsrMap(id, name) =>
                    /\ offset' = offset + 3 + Len(name)
                    /\ ReconstructorUnchanged
                    /\ OnlyEntry(isrNameMap, isrNameMap', id, name)
                    /\ taskNameMap' = taskNameMap
            /\ SetupOther(id, name) =>
                    /\ offset' = offset + 3 + Len(name)
                    /\ ReconstructorUnchanged
                    /\ taskNameMap' = taskNameMap
                    /\ isrNameMap' = isrNameMap
        /\ \A id \in Ids, name \in InfoNames :
            SetupInfo(id, name) =>
                    /\ offset' = offset + 3 + Len(name)
                    /\ ReconstructorUnchanged
      ]_vars

\* a task was started and then named by a setup record with a one-byte
\* name, and one more setup record with an empty name followed: the cursor
\* is at 10 + 4 + 3
C12_Witness ==
    /\ count = 3
    /\ offset = 17
    /\ activeTaskId # Null
    /\ activeTaskId \in DOMAIN taskStartMap
    /\ activeTaskId \in DOMAIN taskNameMap
    /\ taskNameMap[activeTaskId] = "U"

\* the longest prefix of `records' whose encoding takes at most k bytes
RECURSIVE WholePrefix(_, _)
WholePrefix(records, k) ==
    IF records = <<>> THEN <<>>
    ELSE IF Len(EncodeRecord(Head(records))) > k THEN <<>>
    ELSE <<Head(records)>>
         \o WholePrefix(Tail(records), k - Len(EncodeRecord(Head(records))))

\* C13: decoding the first k bytes of a stream of whole records consumes
\* exactly the whole records that lie within the first k bytes, in order,
\* and then returns what the records consumed have produced: nothing of
\* the cut record is decoded and the cursor stays at its first byte.
C13_TruncationReturnsPrefix ==
    /\ \A i \in 1..Len(stream) : i <= Len(written) /\ stream[i] = written[i]
    /\ offset = Len(EncodeStream(stream))
    /\ pc = "done" =>
            /\ stream = WholePrefix(written, Len(content))
            /\ Len(result) = Len(tasks)
            /\ \A i \in 1..Len(result) :
                    /\ result[i].name = tasks[i].name
                    /\ result[i].startTime = tasks[i].startTime
                    /\ result[i].endTime = tasks[i].endTime

\* a buffer cut inside its third record has been decoded: the two whole
\* records gave one instance, the bytes of the third are left unread
C13_Witness ==
    /\ pc = "done"
    /\ Len(written) = 3
    /\ Len(stream) = 2
    /\ offset < Len(content)
    /\ Len(result) = 1

\* C14: every iteration of the loop either leaves the loop or moves the
\* cursor strictly forward, by 3 + nameLen or by 10 bytes, never past the
\* end of the buffer; decoding ends and returns a list.
C14_DecodeTerminates ==
    /\ [](offset <= Len(content))
    /\ [][ \/ pc' = "done" /\ DOMAIN result' = 1..Len(result')
           \/ /\ pc' = "decode"
              /\ offset' > offset
              /\ offset' <= Len(content)
              /\ offset' - offset =
                    IF IsSetupPacket(ReadUInt8(content, offset))
                    THEN 3 + ReadUInt8(content, offset + 2)
                    ELSE packetSize ]_vars
    /\ <>(pc = "done")

\* a buffer that holds an event of unknown kind and ends inside the name of
\* a setup record with an unknown opcode has been decoded
C14_Witness ==
    /\ pc = "done"
    /\ offset + 3 = Len(content)
    /\ ReadUInt8(content, offset) = UnknownSetup
    /\ ReadUInt8(content, offset + 2) = 1
    /\ \E i \in 1..Len(stream) :
            stream[i].rec = "event"
            /\ EventTypeOf(stream[i].typeByte) = UnknownKind

\* C15: the returned list is non-decreasing in startTime, whatever the order
\* of the timestamps in the stream and the order in which the instances
\* were emitted.
C15_ResultSortedByStart ==
    pc = "done" =>
        \A i \in 1..Len(result), j \in 1..Len(result) :
            i < j => result[i].startTime <= result[j].startTime

\* an interrupt entered at 1 inside a task started at 0 has exited before
\* the task ended: its instance was emitted first and is returned second
C15_Witness ==
    /\ pc = "done"
    /\ Len(result) = 2
    /\ result[1].startTime = 0
    /\ Len(result[1].preemptions) = 1
    /\ result[1].preemptions[1].endTime = 1
    /\ result[2].startTime = 1
    /\ result[2].name = "ISR:" \o result[1].preemptions[1].isrName

\* instances i < j of the list are consecutive among its non-gap instances
ConsecutiveNonGap(list, i, j) ==
    /\ i < j
    /\ ~IsGap(list[i])
    /\ ~IsGap(list[j])
    /\ \A k \in (i + 1)..(j - 1) : IsGap(list[k])

\* C16: for every two consecutive non-gap instances A then B of the
\* returned list with B.startTime > A.endTime, the list holds a gap
\* instance with startTime = A.endTime and endTime = B.startTime.
C16_GapPresence ==
    pc = "done" =>
        \A i \in 1..Len(result), j \in 1..Len(result) :
            ( /\ ConsecutiveNonGap(result, i, j)
              /\ result[j].startTime > result[i].endTime ) =>
                \E g \in 1..Len(result) :
                    /\ IsGap(result[g])
                    /\ result[g].startTime = result[i].endTime
                    /\ result[g].endTime = result[j].startTime

\* the name the tables give id: the entry of a setup record when there is
\* one, whatever its length, and the synthesized label otherwise
TableName(m, id, label) ==
    IF id \in DOMAIN m THEN m[id] ELSE label \o ToString(id)

\* C17: a task instance carries exactly the name of the TASK_MAP record of
\* its id (any name a record can carry, the empty one included), or
\* TaskID_<id> when there is none; an interrupt instance carries "ISR:"
\* followed by the name of the ISR_MAP record of its id, or ISR:ISRID_<id>;
\* a TASK_MAP record names no interrupt and an ISR_MAP record no task.
C17_NameResolution ==
    [][\A id \in Ids, t \in Times :
        /\ (id \in DOMAIN taskStartMap /\ TaskEnd(id, t)) =>
                tasks'[Len(tasks')].name = TableName(taskNameMap, id, "TaskID_")
        /\ (id \in DOMAIN isrStartMap /\ IsrExit(id, t) /\ tasks' # tasks) =>
                tasks'[Len(tasks')].name =
                    "ISR:" \o TableName(isrNameMap, id, "ISRID_")
      ]_vars

\* C18: once an event for id X has resolved X's name, no setup record
\* changes the name used for X.  A task-start of an open task and an
\* interrupt-enter of an open interrupt have resolved the name of their id
\* (lines 105 and 149), so a setup record for an open id must leave the name
\* of that id as it was.
C18_NameFixedOnceRead ==
    [][\A id \in Ids, name \in Names :
        /\ (id \in DOMAIN taskStartMap /\ SetupTaskMap(id, name)) =>
                TaskNameOf(id)' = TaskNameOf(id)
        /\ (id \in DOMAIN isrStartMap /\ SetupIsrMap(id, name)) =>
                IsrNameOf(id)' = IsrNameOf(id)
      ]_vars

\* C19: every gap instance has endTime strictly greater than startTime; a
\* task start or task create whose timestamp is at most lastEndTime appends
\* no gap, so an end at t followed by a start at t produces no gap.
C19_GapStrictlyPositive ==
    /\ [](\A i \in 1..Len(tasks) :
            IsGap(tasks[i]) => tasks[i].endTime > tasks[i].startTime)
    /\ [][\A s \in BOOLEAN, id \in Ids, t \in Times :
            (/\ lastEndTime # Null
             /\ t <= lastEndTime
             /\ (TaskStart(id, t) \/ TaskCreate(s, id, t))) =>
                GapCount(tasks') = GapCount(tasks)
         ]_vars

\* a task has ended at 1 and the next record was a task start at 1: one
\* instance, no gap
C19_Witness ==
    /\ count = 3
    /\ Len(tasks) = 1
    /\ ~IsGap(tasks[1])
    /\ tasks[1].endTime = 1
    /\ lastEndTime = Null
    /\ activeTaskId # Null
    /\ taskStartMap[activeTaskId].startTime = 1

\* the instances of the returned list that share the stats object g
SharingStats(g) == {i \in 1..Len(result) : result[i].stats = g}

Span(list) ==
    (CHOOSE e \in {list[i].endTime : i \in 1..Len(list)} :
        \A i \in 1..Len(list) : list[i].endTime <= e)
    - (CHOOSE b \in {list[i].startTime : i \in 1..Len(list)} :
        \A i \in 1..Len(list) : list[i].startTime >= b)

\* C22: with span = max(endTime) - min(startTime) over all returned
\* instances and span > 0, the cpuLoad of each group, in hundredths, is
\* min(10000, floor(actualRunTime * 10000 / span)).
C22_CpuLoadFormula ==
    (pc = "done" /\ result # <<>> /\ Span(result) > 0) =>
        \A i \in 1..Len(result) :
            LET stats == statsHeap[result[i].stats]
                q == (stats.actualRunTime * 10000) \div Span(result)
            IN  stats.cpuLoad = IF q > 10000 THEN 10000 ELSE q

\* a group has run for 1 cycle on a timeline of 3: its load is 33.33, and
\* the timeline is longer than the first instance
C22_Witness ==
    /\ pc = "done"
    /\ result # <<>>
    /\ Span(result) = 3
    /\ result[1].endTime - result[1].startTime < 3
    /\ \E i \in 1..Len(result) :
            /\ statsHeap[result[i].stats].actualRunTime = 1
            /\ statsHeap[result[i].stats].cpuLoad = 3333

\* the sum of f over the finite set S
RECURSIVE SumOf(_, _)
SumOf(f, S) ==
    IF S = {} THEN 0
    ELSE LET x == CHOOSE y \in S : TRUE IN f[x] + SumOf(f, S \ {x})
\* max(0, endTime - startTime)
Positive(interval) ==
    IF interval.endTime - interval.startTime > 0
    THEN interval.endTime - interval.startTime ELSE 0
\* the preemption time of a returned instance: the sum over its preemptions,
\* at most its own duration
ClampedPreemption(inst) ==
    LET raw == SumOf([k \in 1..Len(inst.preemptions) |->
                        Positive(inst.preemptions[k])],
                     1..Len(inst.preemptions))
    IN  IF raw > Positive(inst) THEN Positive(inst) ELSE raw
\* the instances of the returned list that carry the name of instance i
SameName(i) == {j \in 1..Len(result) : result[j].name = result[i].name}

\* the two instances of the example: durations 100 and 300, one preemption
\* of 50 cycles on the second
ExampleHeap ==
    << <<>>, <<[startTime |-> 250, endTime |-> 300, isrName |-> "ISRID_0"]>> >>
ExampleGroup ==
    << [name |-> "TaskID_0", startTime |-> 0, endTime |-> 100,
        preemptions |-> 1],
       [name |-> "TaskID_0", startTime |-> 200, endTime |-> 500,
        preemptions |-> 2] >>

\* C23: on a timeline of positive span the instances are grouped by exact
\* name and each group has runCount = number of its instances, totalRunTime
\* = sum of max(0, endTime - startTime), totalPreemptionTime = sum of the
\* clamped preemption times, actualRunTime = totalRunTime -
\* totalPreemptionTime and averageRunTime = floor(actualRunTime / runCount);
\* durations 100 and 300 with a 50-cycle preemption give 400, 50, 350, 2, 175.
C23_GroupStatistics ==
    /\ (pc = "done" /\ result # <<>> /\ Span(result) > 0) =>
        \A i \in 1..Len(result) :
            LET stats == statsHeap[result[i].stats]
            IN  /\ \A j \in 1..Len(result) :
                        result[j].stats = result[i].stats <=> j \in SameName(i)
                /\ stats.runCount = Cardinality(SameName(i))
                /\ stats.runCount > 0
                /\ stats.totalRunTime =
                        SumOf([j \in SameName(i) |-> Positive(result[j])],
                              SameName(i))
                /\ stats.totalPreemptionTime =
                        SumOf([j \in SameName(i) |->
                                    ClampedPreemption(result[j])],
                              SameName(i))
                /\ stats.actualRunTime =
                        stats.totalRunTime - stats.totalPreemptionTime
                /\ stats.averageRunTime * stats.runCount <= stats.actualRunTime
                /\ (stats.averageRunTime + 1) * stats.runCount
                        > stats.actualRunTime
    /\ LET stats == GroupStats(ExampleHeap, ExampleGroup, 500)
       IN  /\ stats.totalRunTime = 400
           /\ stats.totalPreemptionTime = 50
           /\ stats.actualRunTime = 350
           /\ stats.runCount = 2
           /\ stats.averageRunTime = 175

\* a group of two instances has run for 3 cycles: the average is 1; another
\* group shares the timeline
C23_Witness ==
    /\ pc = "done"
    /\ Len(statsHeap) > 1
    /\ \E g \in 1..Len(statsHeap) :
            /\ statsHeap[g].runCount = 2
            /\ statsHeap[g].actualRunTime = 3
            /\ statsHeap[g].averageRunTime = 1

\* C24: when max(endTime) - min(startTime) over the instances is not
\* positive, every instance gets a stats record whose seven fields are all
\* zero and nothing is grouped or computed.
C24_DegenerateTimeline ==
    (pc = "done" /\ result # <<>> /\ Span(result) <= 0) =>
        \A i \in 1..Len(result) :
            LET stats == statsHeap[result[i].stats]
            IN  /\ DOMAIN stats = {"totalRunTime", "actualRunTime", "runCount",
                                   "cpuLoad", "averageRunTime",
                                   "preemptionCount", "totalPreemptionTime"}
                /\ \A f \in DOMAIN stats : stats[f] = 0

\* the result is made of create markers at one timestamp only
C24_Witness ==
    /\ pc = "done"
    /\ Len(result) = MaxRecords
    /\ \A i \in 1..Len(result) :
            IsCreate(result[i]) /\ result[i].startTime = 1

\* the result is one task instance that ends before it starts, with a
\* preemption
C24_WitnessReversed ==
    /\ pc = "done"
    /\ Len(result) = 1
    /\ result[1].endTime < result[1].startTime
    /\ result[1].preemptions # <<>>

\* C25: in every non-empty returned list every instance has a stats record
\* and all instances of one name share one and the same stats object, on a
\* degenerate timeline too.
C25_StatsShared ==
    (pc = "done" /\ result # <<>>) =>
        /\ \A i \in 1..Len(result) : result[i].stats \in 1..Len(statsHeap)
        /\ \A i \in 1..Len(result), j \in 1..Len(result) :
                result[i].name = result[j].name =>
                    result[i].stats = result[j].stats

\* C26: decoding the same bytes again, after any other decodes, returns the
\* same instances, preemption lists and stats; nothing of an earlier decode
\* is visible to a later one.
C26_Determinism ==
    /\ pc = "done" =>
        \A k \in 1..Len(calls) :
            calls[k].content = content =>
                calls[k].result = result /\ calls[k].stats = statsHeap
    /\ (pc = "decode" /\ count = 0) => Locals

\* the third call has decoded the buffer of the first, which returned an
\* instance; the call between them decoded a buffer with a TASK_MAP record
C26_Witness ==
    /\ pc = "done"
    /\ Len(calls) = 2
    /\ calls[1].content = content
    /\ calls[2].content # content
    /\ calls[2].content # <<>>
    /\ ReadUInt8(calls[2].content, 0) = PROF_SETUP_TASK_MAP
    /\ result # <<>>

\* the decoded records are all setup records, all task-start or
\* interrupt-enter events, or all task-end or interrupt-exit events
IsOpening(r) ==
    /\ r.rec = "event"
    /\ EventTypeOf(r.typeByte) \in {PROF_EVENT_TASK_SWITCH, PROF_EVENT_ISR}
    /\ IsStartEvent(r.typeByte)
IsClosing(r) ==
    /\ r.rec = "event"
    /\ EventTypeOf(r.typeByte) \in {PROF_EVENT_TASK_SWITCH, PROF_EVENT_ISR}
    /\ ~IsStartEvent(r.typeByte)
NothingFinalized ==
    \/ \A i \in 1..Len(stream) : stream[i].rec = "setup"
    \/ \A i \in 1..Len(stream) : IsOpening(stream[i])
    \/ \A i \in 1..Len(stream) : IsClosing(stream[i])

\* C27: a buffer from which no instance is finalized (the empty buffer, only
\* setup records, only starts and enters, only ends and exits, a truncated
\* first record) returns the empty list, and no stats object is made.
C27_EmptyResult ==
    pc = "done" =>
        /\ NothingFinalized => tasks = <<>>
        /\ tasks = <<>> => result = <<>> /\ statsHeap = <<>>

\* a task start and an interrupt enter were decoded and left open, the record
\* after them is truncated, and the empty list was returned
C27_Witness ==
    /\ pc = "done"
    /\ Len(stream) = 2
    /\ 0 \in DOMAIN taskStartMap
    /\ 0 \in DOMAIN isrStartMap
    /\ offset < Len(content)
    /\ result = <<>>

\* a decimal number: one or more decimal digits and nothing else
RECURSIVE AllDigits(_)
AllDigits(str) == str = "" \/ (IsDigit(Head(str)) /\ AllDigits(Tail(str)))
IsDecimal(str) == str # "" /\ AllDigits(str)
AfterClk(name) == SubSeq(name, 5, Len(name))

\* C28: an INFO record whose text is "CLK:" followed by a decimal number sets
\* the clock frequency to that number; when what follows "CLK:" is not a
\* decimal number the frequency stays as it was (null when no earlier record
\* set it); in both cases the instance list is left alone.
C28_ClockInfo ==
    [][\A id \in Ids, name \in InfoNames :
        (StartsWith(name, "CLK:") /\ SetupInfo(id, name)) =>
            /\ tasks' = tasks
            /\ IF IsDecimal(AfterClk(name))
               THEN cpuFrequency' = Number(LeadingDigits(AfterClk(name), 0))
               ELSE cpuFrequency' = cpuFrequency
      ]_vars

\* C29: after every processed record, if activeTaskId is set then the task it
\* names is open; a task id is closed only by a task-end record of that id,
\* and that record clears activeTaskId when activeTaskId names the id.  So no
\* interrupt record finds activeTaskId set and its task not open.
C29_ActiveTaskIsOpen ==
    /\ [](activeTaskId # Null => activeTaskId \in DOMAIN taskStartMap)
    /\ [][\A id \in Ids :
            (id \in DOMAIN taskStartMap /\ id \notin DOMAIN taskStartMap') =>
                /\ \E t \in Times : TaskEnd(id, t)
                /\ activeTaskId = id => activeTaskId' = Null
                /\ activeTaskId # id => activeTaskId' = activeTaskId
         ]_vars

\* two tasks were started, the one started first has ended, and the one
\* started last is still the active task and open
C29_Witness ==
    /\ pc = "decode"
    /\ count = 3
    /\ Len(tasks) = 1
    /\ activeTaskId # Null
    /\ DOMAIN taskStartMap = {activeTaskId}
    /\ \E id \in Ids \ {activeTaskId} : tasks[1].name = TaskNameOf(id)

\* a task start of id at t replaces the open interval of id by one begun at
\* t with a new, empty preemption array; the array of the replaced interval
\* is left as it was and nothing refers to it any more
Restarted(id, t) ==
    LET old == taskStartMap[id].preemptions
        new == taskStartMap'[id].preemptions
    IN  /\ taskStartMap'[id].startTime = t
        /\ new # old
        /\ new \notin 1..Len(heap)
        /\ heap'[new] = <<>>
        /\ heap'[old] = heap[old]
        /\ \A i \in 1..Len(tasks') : tasks'[i].preemptions # old
        /\ \A x \in DOMAIN taskStartMap' : taskStartMap'[x].preemptions # old
\* a task end of id at t emits exactly the instance of the open interval of
\* id, with the preemption array of that interval, and closes id
EndsCurrent(id, t) ==
    /\ tasks' = Append(tasks, [name |-> TaskNameOf(id),
                               startTime |-> taskStartMap[id].startTime,
                               endTime |-> t,
                               preemptions |-> taskStartMap[id].preemptions])
    /\ id \notin DOMAIN taskStartMap'
\* the step appends one gap instance from lastEndTime to t and nothing else
AppendsGap(t) ==
    /\ Len(tasks') = Len(tasks) + 1
    /\ SubSeq(tasks', 1, Len(tasks)) = tasks
    /\ IsGap(tasks'[Len(tasks')])
    /\ tasks'[Len(tasks')].startTime = lastEndTime
    /\ tasks'[Len(tasks')].endTime = t
    /\ heap'[tasks'[Len(tasks')].preemptions] = <<>>

Emitted(list, h, i) ==
    [name |-> list[i].name, startTime |-> list[i].startTime,
     endTime |-> list[i].endTime, preemptions |-> h[list[i].preemptions]]
\* instance j of the returned list without its stats
ReturnedPlain(j) ==
    [name |-> result[j].name, startTime |-> result[j].startTime,
     endTime |-> result[j].endTime, preemptions |-> result[j].preemptions]

\* C31: an emitted instance is frozen: no later record changes its name,
\* startTime, endTime or the contents of its preemption array, and the
\* returned list holds the emitted instances as they were emitted (sorted);
\* so a preemption whose interrupt exits after its task has ended keeps
\* end = 0 in the result.
C31_EmittedFrozen ==
    [][/\ pc' = "decode" =>
            \A i \in 1..Len(tasks) :
                /\ i <= Len(tasks')
                /\ Emitted(tasks', heap', i) = Emitted(tasks, heap, i)
       /\ (pc = "decode" /\ pc' = "done") =>
            /\ Len(result') = Len(tasks)
            /\ \A i \in 1..Len(tasks) :
                    Cardinality({j \in 1..Len(tasks) :
                        Emitted(tasks, heap, j) = Emitted(tasks, heap, i)})
                    = Cardinality({j \in 1..Len(result') :
                        ReturnedPlain(j)' = Emitted(tasks, heap, i)})
      ]_vars

\* the result holds a task instance with a preemption whose end is unset and
\* the instance of the interrupt of that preemption, which exited at or after
\* the end of the task
C31_Witness ==
    /\ pc = "done"
    /\ \E i \in 1..Len(result), j \in 1..Len(result) :
        /\ Len(result[i].preemptions) = 1
        /\ result[i].preemptions[1].endTime = 0
        /\ result[j].name = "ISR:" \o result[i].preemptions[1].isrName
        /\ result[j].startTime = result[i].preemptions[1].startTime
        /\ result[j].endTime >= result[i].endTime

\* two instances overlap when their intervals share more than an end point
Overlap(a, b) == a.startTime < b.endTime /\ b.startTime < a.endTime

\* C32: for a stream whose timestamps do not decrease, the gap instances are
\* pairwise non-overlapping and no two of them start at the same timestamp,
\* whatever events lie between a task end and the next task start.
C32_NoDoubleGap ==
    \A i \in 1..Len(tasks), j \in 1..Len(tasks) :
        (i # j /\ IsGap(tasks[i]) /\ IsGap(tasks[j])) =>
            /\ tasks[i].startTime # tasks[j].startTime
            /\ ~Overlap(tasks[i], tasks[j])

\* an emitted instance of a task: neither a gap, nor a create marker, nor an
\* interrupt
IsTaskInstance(inst) ==
    /\ ~IsGap(inst)
    /\ ~IsCreate(inst)
    /\ ~StartsWith(inst.name, "ISR:")

\* C33: for a stream whose timestamps do not decrease, no gap instance
\* overlaps the interval of an emitted task instance; and a task start
\* processed while a task started earlier is still open appends no gap.
C33_GapsUnattributed ==
    /\ [](\A i \in 1..Len(tasks), j \in 1..Len(tasks) :
            (IsGap(tasks[i]) /\ IsTaskInstance(tasks[j])) =>
                ~Overlap(tasks[i], tasks[j]))
    /\ [][\A id \in Ids, t \in Later :
            (taskStartMap # EmptyMap /\ TaskStart(id, t)) =>
                GapCount(tasks') = GapCount(tasks)
         ]_vars

\* the preemptions of a returned instance whose end is set
Resolved(inst) == {k \in 1..Len(inst.preemptions) : inst.preemptions[k].endTime # 0}
\* the preemption time of a returned instance, taken over its resolved
\* preemptions only, at most its own duration
ResolvedPreemption(inst) ==
    LET raw == SumOf([k \in Resolved(inst) |-> Positive(inst.preemptions[k])],
                     Resolved(inst))
    IN  IF raw > Positive(inst) THEN Positive(inst) ELSE raw
\* the stats of every group count every preemption entry of the group, and
\* take preemption time from the resolved entries only
UnresolvedCounted ==
    \A i \in 1..Len(result) :
        LET stats == statsHeap[result[i].stats]
        IN  /\ stats.preemptionCount =
                    SumOf([j \in SameName(i) |-> Len(result[j].preemptions)],
                          SameName(i))
            /\ stats.totalPreemptionTime =
                    SumOf([j \in SameName(i) |-> ResolvedPreemption(result[j])],
                          SameName(i))

\* C34 as stated: on every result, a preemption whose end is unset adds
\* nothing to the preemption time of its instance, whatever its start, and
\* preemptionCount of a group is the number of preemption entries of its
\* instances, resolved or not.
C34_UnresolvedOnEveryTimeline ==
    (pc = "done" /\ result # <<>>) => UnresolvedCounted

\* C34: on a timeline of positive span, a preemption whose end is unset adds
\* nothing to the preemption time of its instance, whatever its start, and
\* preemptionCount of a group is the number of preemption entries of its
\* instances, resolved or not.
C34_UnresolvedPreemptions ==
    (pc = "done" /\ result # <<>> /\ Span(result) > 0) => UnresolvedCounted

\* a returned instance on a timeline of positive span has a preemption that
\* started after 0 and whose end is unset
C34_Witness ==
    /\ pc = "done"
    /\ result # <<>>
    /\ Span(result) > 0
    /\ \E i \in 1..Len(result) :
        /\ Positive(result[i]) > 0
        /\ \E k \in 1..Len(result[i].preemptions) :
            /\ result[i].preemptions[k].endTime = 0
            /\ result[i].preemptions[k].startTime > 0
        /\ statsHeap[result[i].stats].preemptionCount > 0
        /\ statsHeap[result[i].stats].totalPreemptionTime = 0

\* the open preemptions of interrupt id in a preemption array
OpenOf(list, id) ==
    {k \in 1..Len(list) :
        list[k].isrName = IsrNameOf(id) /\ list[k].endTime = 0}
\* the array of the active task
ActiveList(h) == h[taskStartMap[activeTaskId].preemptions]

\* C35: an interrupt enter of Y at t2 while Y is open replaces the start of Y
\* by t2 and, when a task is active, appends a second open preemption of Y to
\* it; the next interrupt exit of Y at t3 emits exactly one instance
\* {"ISR:" + name(Y), t2, t3}, closes the later of the open preemptions of Y
\* and leaves the earlier ones unresolved; a further exit of Y is dropped.
C35_ReenteredInterrupt ==
    [][\A id \in Ids, t \in Times :
        /\ (id \in DOMAIN isrStartMap /\ IsrEnter(id, t)) =>
            /\ isrStartMap' = MapSet(isrStartMap, id, t)
            /\ ActiveTaskOpen =>
                    ActiveList(heap') = Append(ActiveList(heap),
                        [startTime |-> t, endTime |-> 0,
                         isrName |-> IsrNameOf(id)])
        /\ (id \in DOMAIN isrStartMap /\ IsrExit(id, t)) =>
            /\ Len(tasks') = Len(tasks) + 1
            /\ SubSeq(tasks', 1, Len(tasks)) = tasks
            /\ Emitted(tasks', heap', Len(tasks')) =
                    [name |-> "ISR:" \o IsrNameOf(id),
                     startTime |-> isrStartMap[id], endTime |-> t,
                     preemptions |-> <<>>]
            /\ id \notin DOMAIN isrStartMap'
            /\ (ActiveTaskOpen /\ OpenOf(ActiveList(heap), id) # {}) =>
                    LET open == OpenOf(ActiveList(heap), id)
                        last == CHOOSE k \in open : \A j \in open : j <= k
                    IN  /\ ActiveList(heap') =
                                [ActiveList(heap) EXCEPT ![last].endTime = t]
                        /\ \A k \in open \ {last} :
                                ActiveList(heap')[k].endTime = 0
        /\ (id \notin DOMAIN isrStartMap /\ IsrExit(id, t)) =>
                tasks' = tasks /\ heap' = heap
      ]_vars

\* the raw timestamps of the matches increase modulo 2^32: each one is at
\* least the one before, or wraps around from above 0xF0000000 to below
\* 0x10000000
RawIncreasing ==
    \A k \in 1..(Len(times) - 1) :
        \/ ~BigLess(times[k + 1].raw, times[k].raw)
        \/ /\ BigLess(OVERFLOW_THRESHOLD, times[k].raw)
           /\ BigLess(times[k + 1].raw, WrapLimit)

\* C36: for raw timestamps that increase modulo 2^32, the extended
\* timestamps returned by parseTimestamp do not decrease in stream order,
\* before and after any number of wrap-arounds.
C36_ExtendedNonDecreasing ==
    RawIncreasing =>
        \A k \in 1..(Len(times) - 1) :
            ~BigLess(times[k + 1].time, times[k].time)

\* C37: for a file made of whole records the decoder understands, with
\* optional delimiter bytes between them, preprocessLogBinary returns the
\* records back to back, decoding its result gives what decoding the records
\* gives, and a file without delimiters is returned as it is.
C37_PreprocessPreserves ==
    Len(calls) = 1 =>
        /\ content = EncodeStream(written)
        /\ buffer = EncodeStream(written) => content = buffer
        /\ pc = "done" =>
                result = calls[1].result /\ statsHeap = calls[1].stats

====
